---- MODULE Spec2Model ----
(***************************************************************************)
(* slnpm: a package installer that links every dependency of a project as  *)
(* a symbolic link into a shared store of <name>@<version> directories.    *)
(* The model follows src/src/core.ts (the synchronous core): the disk      *)
(* (store, project node_modules, scratch tree, manifest) is the state, and *)
(* one run of main() is one action.                                        *)
(***************************************************************************)
EXTENDS Integers, Sequences, FiniteSets, TLC

\* ------------------------------------------------------------------------
\* Bounds of the model
\* ------------------------------------------------------------------------

\* number of installer runs (processes) in one behaviour
MaxRuns == 2

\* nested calls a walk (absorb, link pass, peer pass) may make before the
\* model gives up on it
MaxDepth == 5

\* ------------------------------------------------------------------------
\* Versions and ranges (the semver package, as used by the core)
\* ------------------------------------------------------------------------

NoVersion == <<>>

V100 == <<1, 0, 0>>
V110 == <<1, 1, 0>>
V200 == <<2, 0, 0>>

\* semver precedence of two release versions
VersionLess(v, w) ==
    \/ v[1] < w[1]
    \/ v[1] = w[1] /\ v[2] < w[2]
    \/ v[1] = w[1] /\ v[2] = w[2] /\ v[3] < w[3]

VersionLeq(v, w) == v = w \/ VersionLess(v, w)

\* a dependency value: a semver range, or link:<path> / file:<path>
Range(k, v, path) == [k |-> k, v |-> v, path |-> path]

Star == Range("star", NoVersion, "")
Latest == Range("latest", NoVersion, "")
Exact(v) == Range("exact", v, "")
Caret(v) == Range("caret", v, "")
Tilde(v) == Range("tilde", v, "")
LinkSpec(path) == Range("link", NoVersion, path)
FileSpec(path) == Range("file", NoVersion, path)
\* the range of a token typed without one (parseDep's version: null)
NoRange == Range("none", NoVersion, "")

\* upper bound (exclusive) of ^v : the next version that changes the
\* left-most non-zero component
CaretUpper(v) ==
    IF v[1] > 0 THEN <<v[1] + 1, 0, 0>>
    ELSE IF v[2] > 0 THEN <<0, v[2] + 1, 0>>
    ELSE <<0, 0, v[3] + 1>>

TildeUpper(v) == <<v[1], v[2] + 1, 0>>

\* new Range(range): the strings semver parses as a range.  `latest`, an
\* empty value and link:/file: values are not ranges.
validRange(range) == range.k \in {"star", "exact", "caret", "tilde"}

\* semver.satisfies(version, range), for a valid range
satisfies(version, range) ==
    CASE range.k = "star" -> TRUE
      [] range.k = "exact" -> version = range.v
      [] range.k = "caret" ->
            VersionLeq(range.v, version) /\ VersionLess(version, CaretUpper(range.v))
      [] range.k = "tilde" ->
            VersionLeq(range.v, version) /\ VersionLess(version, TildeUpper(range.v))
      [] OTHER -> FALSE

MaxVersion(versions) ==
    CHOOSE v \in versions : \A w \in versions : VersionLeq(w, v)

\* semver.maxSatisfying(versions, range): null for an unparseable range or
\* when nothing matches
maxSatisfying(versions, range) ==
    IF ~validRange(range) THEN NoVersion
    ELSE LET ok == {v \in versions : v # NoVersion /\ satisfies(v, range)}
         IN IF ok = {} THEN NoVersion ELSE MaxVersion(ok)

findLatestMatch(versionRange, exactVersions) ==
    maxSatisfying(exactVersions,
                  IF versionRange.k = "latest" THEN Star ELSE versionRange)

isLinkDep(dep) == dep.k \in {"link", "file"}

parseLinkDepPackageDir(dep) == <<"path", dep.path>>

\* ------------------------------------------------------------------------
\* Package names, objects with ordered keys, the registry
\* ------------------------------------------------------------------------

\* the package names of the model, in the order Array.prototype.sort()
\* gives them (UTF-16 code units)
NameOrder == <<"a", "b", "c", "d">>

Names == {NameOrder[i] : i \in DOMAIN NameOrder}

NameRank(name) == CHOOSE i \in DOMAIN NameOrder : NameOrder[i] = name

\* A JSON object whose values are dependency ranges is a sequence of
\* <<key, value>> pairs: `for (name in object)` and JSON.stringify go
\* through the keys in insertion order.
Keys(obj) == {obj[i][1] : i \in DOMAIN obj}

KeySeq(obj) == [i \in DOMAIN obj |-> obj[i][1]]

Get(obj, key) == obj[CHOOSE i \in DOMAIN obj : obj[i][1] = key][2]

\* obj[key] = value
Put(obj, key, value) ==
    IF key \in Keys(obj)
    THEN [i \in DOMAIN obj |-> IF obj[i][1] = key THEN <<key, value>> ELSE obj[i]]
    ELSE Append(obj, <<key, value>>)

\* delete obj[key]
Delete(obj, key) == SelectSeq(obj, LAMBDA kv : kv[1] # key)

RECURSIVE SortedNames(_)
\* the names of a set, sorted
SortedNames(names) ==
    IF names = {} THEN <<>>
    ELSE LET n == CHOOSE x \in names : \A y \in names : NameRank(x) <= NameRank(y)
         IN <<n>> \o SortedNames(names \ {n})

IsSorted(obj) ==
    \A i, j \in DOMAIN obj : i < j => NameRank(obj[i][1]) < NameRank(obj[j][1])

sortDeps(deps) ==
    LET keys == SortedNames(Keys(deps))
    IN [i \in DOMAIN keys |-> <<keys[i], Get(deps, keys[i])>>]

\* A store key.  The directory <storeDir>/<name>@<version> is named on disk
\* by the parts of its name between the `@`s, which are the key's.
Key(name, version) == <<name, version>>

StoreDir(name, version) == <<"store", name, version>>

\* the project's node_modules directory is named by the project directory
Proj == <<"proj">>

\* a real directory <projectDir>/node_modules/<dirname>
RealDir(dirname) == <<"real", dirname>>

\* The published packages and their package.json files.  a@1.1.0 and
\* b@1.0.0 depend on each other; c@1.0.0 has `a` as a peer.
Published == {Key("a", V100), Key("a", V110), Key("b", V100), Key("c", V100)}

PackageJson(name, version) ==
    CASE name = "a" /\ version = V110 ->
            [dependencies |-> <<<<"b", Caret(V100)>>>>,
             peerDependencies |-> <<>>, peerDependenciesMeta |-> <<>>, bin |-> <<>>]
      [] name = "b" ->
            [dependencies |-> <<<<"a", Caret(V110)>>>>,
             peerDependencies |-> <<>>, peerDependenciesMeta |-> <<>>,
             bin |-> <<<<"b", "cli.js">>>>]
      [] name = "c" ->
            [dependencies |-> <<>>,
             peerDependencies |-> <<<<"a", Caret(V100)>>>>,
             peerDependenciesMeta |-> <<"a", "b">>, bin |-> <<>>]
      [] OTHER ->
            [dependencies |-> <<>>,
             peerDependencies |-> <<>>, peerDependenciesMeta |-> <<>>, bin |-> <<>>]

\* the directories a link:/file: dependency may name, and the package.json
\* found there
LinkPaths == {"/lib", "../lib"}

\* those of them that are absolute; the others are read from the project
\* directory, the working directory of the process: there `../lib` is /lib
AbsolutePaths == {"/lib"}

\* path.resolve(path) in the project directory
Absolute(path) == IF path \in AbsolutePaths THEN path ELSE "/lib"

\* the directory named by a path, whichever way it is written
Canon(dir) == IF dir[1] = "path" THEN <<"path", Absolute(dir[2])>> ELSE dir

\* where a symlink of a node_modules directory leads: a relative target is
\* read from the directory of the symlink, where it names nothing
Dangling == <<"missing">>

Readlink(to) ==
    IF to[1] = "path" /\ to[2] \notin AbsolutePaths THEN Dangling ELSE to

LinkPackageJson(path) ==
    [name |-> "d", dependencies |-> <<<<"a", Caret(V100)>>>>,
     peerDependencies |-> <<<<"a", Star>>>>, peerDependenciesMeta |-> <<>>,
     bin |-> <<>>]

PublishedVersions(name) == {k[2] : k \in {k \in Published : k[1] = name}}

\* ------------------------------------------------------------------------
\* Directory trees: what readdirSync finds in a node_modules directory
\* ------------------------------------------------------------------------

\* <packageDir>/node_modules: absent, a real directory with entries, a
\* symlink to the node_modules directory that holds the package (a cycle),
\* or a symlink that loops on itself (existsSync is false for it)
NoNM == [k |-> "none", e |-> <<>>]
DirNM(entries) == [k |-> "dir", e |-> entries]
UpNM == [k |-> "up", e |-> <<>>]
LoopNM == [k |-> "loop", e |-> <<>>]

\* an entry of a node_modules directory: a package directory with the name
\* and version of its package.json, or a symlink
Pkg(name, version, sub) ==
    [dir |-> name, sym |-> FALSE, name |-> name, version |-> version, sub |-> sub]

Sym(dirname) ==
    [dir |-> dirname, sym |-> TRUE, name |-> "", version |-> NoVersion, sub |-> NoNM]

\* a directory entry whose name starts with a dot
IsHidden(dirname) == dirname \in {".bin", ".tmp", ".package-lock.json"}

Hidden(dirname) ==
    [dir |-> dirname, sym |-> FALSE, name |-> "", version |-> NoVersion, sub |-> NoNM]

\* the entries of a directory that are package directories
Packages(entries) == SelectSeq(entries, LAMBDA e : ~e.sym /\ ~IsHidden(e.dir))

RECURSIVE SeqOfKeys(_)
\* the keys of a set as a sequence, by name and then by version
SeqOfKeys(keys) ==
    IF keys = {} THEN <<>>
    ELSE LET k == CHOOSE x \in keys : \A y \in keys :
                     \/ NameRank(x[1]) < NameRank(y[1])
                     \/ x[1] = y[1] /\ VersionLeq(x[2], y[2])
         IN <<k>> \o SeqOfKeys(keys \ {k})

\* ------------------------------------------------------------------------
\* The external package manager (`npm view`, `npx npm i`)
\* ------------------------------------------------------------------------

\* the version the registry gives for a name and a range; `latest` and a
\* missing range are the highest published version
Resolve(name, range) ==
    maxSatisfying(PublishedVersions(name),
                  IF range.k \in {"latest", "none"} THEN Star ELSE range)

\* what a published package asks npm to install with it; its peers too
\* unless --legacy-peer-deps
Requires(key, legacyPeerDeps) ==
    LET json == PackageJson(key[1], key[2])
    IN json.dependencies \o
       (IF legacyPeerDeps THEN <<>> ELSE json.peerDependencies)

ResolveAll(deps) == {Key(deps[i][1], Resolve(deps[i][1], deps[i][2])) : i \in DOMAIN deps}

RECURSIVE NpmClosure(_, _)

NpmClosureStep(keys, more, legacyPeerDeps) ==
    IF more = keys THEN keys ELSE NpmClosure(more, legacyPeerDeps)

NpmClosure(keys, legacyPeerDeps) ==
    NpmClosureStep(keys,
                   keys \cup UNION {ResolveAll(Requires(k, legacyPeerDeps)) : k \in keys},
                   legacyPeerDeps)

RECURSIVE NpmNested(_, _, _)

\* the nested layout: every package carries its own dependencies in its
\* node_modules, except those an ancestor already provides
NpmNestedIn(key, kids, order, above, legacyPeerDeps) ==
    Pkg(key[1], key[2],
        IF kids = {} THEN NoNM
        ELSE DirNM([i \in DOMAIN order |->
                       NpmNested(order[i], above \cup {key}, legacyPeerDeps)]))

NpmNestedOf(key, kids, above, legacyPeerDeps) ==
    NpmNestedIn(key, kids, SeqOfKeys(kids), above, legacyPeerDeps)

NpmNested(key, above, legacyPeerDeps) ==
    NpmNestedOf(key, ResolveAll(Requires(key, legacyPeerDeps)) \ (above \cup {key}),
                above, legacyPeerDeps)

\* the hoisted layout: one version of each name at the top (the requested
\* one, else the highest needed); a package whose dependency is not the one
\* at the top carries it in its own node_modules
HoistedTop(all, direct) ==
    {k \in all :
        \/ k \in direct
        \/ /\ \A d \in direct : d[1] # k[1]
           /\ \A o \in all : o[1] = k[1] => VersionLeq(o[2], k[2])}

\* a package at the top, with the dependencies it carries itself
HoistedPkg(k, own) ==
    Pkg(k[1], k[2],
        IF own = <<>> THEN NoNM
        ELSE DirNM([j \in DOMAIN own |-> Pkg(own[j][1], own[j][2], NoNM)]))

HoistedTree(top, order, legacyPeerDeps) ==
    [i \in DOMAIN order |->
        HoistedPkg(order[i],
                   SeqOfKeys(ResolveAll(Requires(order[i], legacyPeerDeps)) \ top))]

HoistedOf(top, legacyPeerDeps) == HoistedTree(top, SeqOfKeys(top), legacyPeerDeps)

NpmHoisted(direct, legacyPeerDeps) ==
    HoistedOf(HoistedTop(NpmClosure(direct, legacyPeerDeps), direct), legacyPeerDeps)

\* the node_modules tree `npx npm i` leaves in the scratch directory for
\* the manifest {dependencies}; Failed when a dependency cannot be resolved
NpmFailed == <<Sym("")>>

NpmTreeOf(direct, order, legacyPeerDeps, layout) ==
    IF \E k \in direct : k[2] = NoVersion THEN NpmFailed
    ELSE (IF layout = "nested"
          THEN [i \in DOMAIN order |-> NpmNested(order[i], {}, legacyPeerDeps)]
          ELSE NpmHoisted(direct, legacyPeerDeps))
         \o <<Hidden(".package-lock.json")>>

NpmResolved(direct, legacyPeerDeps, layout) ==
    NpmTreeOf(direct, SeqOfKeys(direct), legacyPeerDeps, layout)

NpmTree(dependencies, legacyPeerDeps, layout) ==
    NpmResolved(ResolveAll(dependencies), legacyPeerDeps, layout)

RECURSIVE SeqOfVersions(_)
SeqOfVersions(versions) ==
    IF versions = {} THEN <<>>
    ELSE LET v == CHOOSE x \in versions : \A y \in versions : VersionLeq(x, y)
         IN <<v>> \o SeqOfVersions(versions \ {v})

\* `npm view <dep> version`: the published versions the token matches,
\* lowest first; the highest one alone for a bare name or a dist-tag
npmViewVersions(dep) ==
    IF dep.range.k \in {"latest", "none"}
    THEN (IF PublishedVersions(dep.name) = {} THEN <<>>
          ELSE <<MaxVersion(PublishedVersions(dep.name))>>)
    ELSE SeqOfVersions({v \in PublishedVersions(dep.name) : satisfies(v, dep.range)})

\* ------------------------------------------------------------------------
\* The core (src/src/core.ts).  An operator takes the state S of the run:
\* the disk (store, links, binLinks, nmDirs, real, tmp, manifest) and the
\* variables of main() and installPackages(), and gives the state after the
\* call.  S.err is the message of the exception thrown, "" when none was:
\* once it is set, the rest of the run is skipped.
\* ------------------------------------------------------------------------

Throw(S, message) == [S EXCEPT !.err = message]

\* Map<string, Set<string>>: the versions recorded for a name
getVersions(map, name) == {k[2] : k \in {k \in map : k[1] = name}}

\* is there an entry <nodeModulesDir>/<name> (a symlink, or a real
\* directory of the project's node_modules)
Exists(S, nm, name) ==
    \/ \E l \in S.links : l.nm = Canon(nm) /\ l.name = name
    \/ nm = Proj /\ \E i \in DOMAIN S.real : S.real[i].dir = name

Link(nm, name, to) == [nm |-> Canon(nm), name |-> name, to |-> to]

\* symlinkSync(src, <nm>/<name>) that puts the new link in the place of an
\* entry that is there
makeSymbolicLinkOver(S, src, nm, name) ==
    [S EXCEPT !.links = {l \in @ : ~(l.nm = Canon(nm) /\ l.name = name)}
                            \cup {Link(nm, name, src)},
              !.created = @ \cup {Link(nm, name, src)}]

\* symlinkSync(src, <nm>/<name>), EEXIST swallowed
makeSymbolicLink(S, src, nm, name) ==
    IF Exists(S, nm, name) THEN S
    ELSE [S EXCEPT !.links = @ \cup {Link(nm, name, src)},
                   !.created = @ \cup {Link(nm, name, src)}]

\* dest is <nm>/<packageName>; the @org parent of a scoped name is made
\* on the way
linkPackage(S, packageName, src, nm) == makeSymbolicLink(S, src, nm, packageName)

\* src without the version: join(storeDir, packageName)
linkStorePackageNoVersion(S, nm, packageName, exactVersion) ==
    linkPackage(S, packageName, StoreDir(packageName, NoVersion), nm)

\* links <nm>/<packageName> to the store; the caller takes
\* StoreDir(packageName, exactVersion) as the value returned
linkStorePackage(S, nm, packageName, exactVersion) ==
    linkPackage(S, packageName, StoreDir(packageName, exactVersion), nm)

\* realpathSync(<projectDir>/node_modules/<name>)
RealPath(S, name) ==
    IF \E l \in S.links : l.nm = Proj /\ l.name = name
    THEN Readlink((CHOOSE l \in S.links : l.nm = Proj /\ l.name = name).to)
    ELSE RealDir(name)

\* after linkPackage(packageName, src, dest): realpathSync(dest)
linkedDepPackage(S, S1, src, name, known) ==
    IF name = ""
    THEN [S |-> Throw(S, "missing package name"), name |-> ""]
    ELSE IF (~known /\ RealPath(S1, name) = src) \/ RealPath(S1, name) = Dangling
    THEN [S |-> Throw(S1, "ENOENT"), name |-> name]
    ELSE [S |-> [S1 EXCEPT !.linkedDepPackageDirs = @ \cup {RealPath(S1, name)}],
          name |-> name]

linkDepPackageAs(S, nm, src, name, known) ==
    linkedDepPackage(S, linkPackage(S, name, src, nm), src, name, known)

\* packageName is "" for null; gives the state and the name linked
linkDepPackage(S, nm, packageName, dep) ==
    IF packageName = "" /\ dep.path \notin LinkPaths
    THEN [S |-> Throw(S, "ENOENT"), name |-> ""]
    ELSE linkDepPackageAs(S, nm, parseLinkDepPackageDir(dep),
                          IF packageName # "" THEN packageName
                          ELSE LinkPackageJson(dep.path).name,
                          dep.path \in LinkPaths)

\* a token as parseDep returns it: version is NoRange for null
parseDep(dep) == [name |-> dep.name, version |-> dep.range]

\* rmSync(<nodeModulesDir>/<name>, {recursive, force}) in the project
uninstallDep(S, name) ==
    [S EXCEPT !.links = {l \in @ : ~(l.nm = Proj /\ l.name = name)},
              !.real = SelectSeq(@, LAMBDA e : e.dir # name)]

\* a loop over a sequence: the body applied to each element in turn
Fold(Body(_, _), start, seq) ==
    LET f[i \in 0..Len(seq)] == IF i = 0 THEN start ELSE Body(f[i - 1], seq[i])
    IN f[Len(seq)]

Reverse(seq) == [i \in DOMAIN seq |-> seq[Len(seq) + 1 - i]]

\* a section of package.json: absent, or an object
NoSection == [has |-> FALSE, obj |-> <<>>]
Section(obj) == [has |-> TRUE, obj |-> obj]

\* registerVersion of installDeps: R is the state with the deps the
\* tokens are saved to
registerVersion(R, name, version) ==
    [R EXCEPT !.deps = Put(@, name, version),
              !.S.newInstallDeps = Put(@, name, version)]

\* the range written for a token that has none
RecordedCaret(version, exactVersion) ==
    IF version = NoRange THEN Caret(exactVersion) ELSE version

\* the isLinkDep branch of the loop, after linkDepPackage
installLinkDep(R, linked, dep) ==
    IF linked.S.err # "" THEN [R EXCEPT !.S = linked.S]
    ELSE [S |-> linked.S, deps |-> Put(R.deps, linked.name, dep.range)]

lowest(found) == CHOOSE i \in found : \A j \in found : i <= j

\* after npmViewVersions(dep) and npmVersions.reverse(); found are the
\* places of the versions the store has
installViewedDep(R, S1, name, version, npmVersions, found) ==
    IF npmVersions = <<>>
    THEN [R EXCEPT !.S = Throw(S1, "No versions found")]
    ELSE IF found # {}
    THEN registerVersion(
             [R EXCEPT !.S = linkStorePackage(S1, Proj, name, npmVersions[lowest(found)])],
             name, RecordedCaret(version, npmVersions[lowest(found)]))
    ELSE registerVersion(
             [R EXCEPT !.S = [S1 EXCEPT
                 !.newDeps = Put(@, name, RecordedCaret(version, npmVersions[1])),
                 !.hasNewDeps = TRUE]],
             name, RecordedCaret(version, npmVersions[1]))

installViewed(R, dep, storeVersions, npmVersions) ==
    installViewedDep(R, [R.S EXCEPT !.npmViews = Append(@, dep)],
                     parseDep(dep).name, parseDep(dep).version, npmVersions,
                     {i \in DOMAIN npmVersions : npmVersions[i] \in storeVersions})

\* exactVersion is semver.maxSatisfying(storeVersions, version || '*')
installStoreDep(R, dep, storeVersions, exactVersion) ==
    IF exactVersion # NoVersion
    THEN registerVersion(
             [R EXCEPT !.S = linkStorePackage(R.S, Proj, parseDep(dep).name, exactVersion)],
             parseDep(dep).name, Exact(exactVersion))
    ELSE installViewed(R, dep, storeVersions, Reverse(npmViewVersions(dep)))

installNamedDep(R, dep, storeVersions) ==
    installStoreDep(R, dep, storeVersions,
                    maxSatisfying(storeVersions,
                                  IF parseDep(dep).version = NoRange THEN Star
                                  ELSE parseDep(dep).version))

\* one token of the loop of installDeps
installDep(R, dep) ==
    IF R.S.err # "" THEN R
    ELSE IF isLinkDep(dep.range)
    THEN installLinkDep(R, linkDepPackage(R.S, Proj, "", dep.range), dep)
    ELSE installNamedDep(R, dep, getVersions(R.S.storePackageVersions, parseDep(dep).name))

\* installDeps(deps, installDeps): gives the state and the deps
installDeps(S, deps, tokens) ==
    Fold(installDep, [S |-> S, deps |-> deps], tokens)

\* after installDeps(deps, ...): packageJson.<section> = sortDeps(deps)
savedDeps(r, section) ==
    IF r.S.err # "" THEN r.S
    ELSE IF section = "dependencies"
    THEN [r.S EXCEPT !.packageJson.dependencies = Section(sortDeps(r.deps)),
                     !.hasUpdatedPackageJson = TRUE]
    ELSE [r.S EXCEPT !.packageJson.devDependencies = Section(sortDeps(r.deps)),
                     !.hasUpdatedPackageJson = TRUE]

installDevTokens(S, options) ==
    IF S.err # "" \/ options.installDevDeps = <<>> THEN S
    ELSE savedDeps(installDeps(S, S.devDependencies.obj, options.installDevDeps),
                   "devDependencies")

\* the two `if (options.install...Deps.length > 0)` blocks
installTokens(S, options) ==
    installDevTokens(
        IF options.installDeps = <<>> THEN S
        ELSE savedDeps(installDeps(S, S.dependencies.obj, options.installDeps),
                       "dependencies"),
        options)

\* without `delete dependencies[name]` and `delete devDependencies[name]`
uninstallOneKeepsLocal(S, dep) ==
    LET name == parseDep(dep).name
        S1 == uninstallDep(S, name)
        inDeps == name \in Keys(S1.packageJson.dependencies.obj)
        S2 == IF inDeps
              THEN [S1 EXCEPT !.packageJson.dependencies = Section(Delete(@.obj, name)),
                              !.hasUpdatedPackageJson = TRUE]
              ELSE S1
        inDev == name \in Keys(S2.packageJson.devDependencies.obj)
    IN IF inDev
       THEN [S2 EXCEPT !.packageJson.devDependencies = Section(Delete(@.obj, name)),
                       !.hasUpdatedPackageJson = TRUE]
       ELSE S2

\* one token of the uninstall loop
uninstallOne(S, dep) ==
    LET name == parseDep(dep).name
        S1 == uninstallDep(S, name)
        inDeps == name \in Keys(S1.packageJson.dependencies.obj)
        S2 == IF inDeps
              THEN [S1 EXCEPT !.packageJson.dependencies.obj = Delete(@, name),
                              !.hasUpdatedPackageJson = TRUE,
                              !.dependencies.obj = Delete(@, name)]
              ELSE S1
        inDev == name \in Keys(S2.packageJson.devDependencies.obj)
    IN IF inDev
       THEN [S2 EXCEPT !.packageJson.devDependencies.obj = Delete(@, name),
                       !.hasUpdatedPackageJson = TRUE,
                       !.devDependencies.obj = Delete(@, name)]
       ELSE S2

\* the `if (options.uninstallDeps.length > 0)` block
uninstallTokens(S, options) ==
    IF S.err # "" THEN S ELSE Fold(uninstallOne, S, options.uninstallDeps)

\* writeFileSync(packageFile, JSON.stringify(packageJson, null, 2))
writePackageJson(S) ==
    IF S.err = "" /\ S.hasUpdatedPackageJson
    THEN [S EXCEPT !.manifest = S.packageJson, !.manifestWrites = @ + 1]
    ELSE S

\* without the `return` after linkStorePackage
addPackageDepFallsThrough(S, name, versionRange) ==
    LET versions == getVersions(S.storePackageVersions, name)
        exactVersion == findLatestMatch(versionRange, versions)
        S1 == IF exactVersion # NoVersion
              THEN linkStorePackage(S, Proj, name, exactVersion) ELSE S
    IN IF S.err # "" THEN S
       ELSE IF isLinkDep(versionRange)
       THEN linkDepPackage(S, Proj, name, versionRange).S
       ELSE [S1 EXCEPT !.newDeps = Put(@, name, versionRange), !.hasNewDeps = TRUE]

addPackageDep(S, name, versionRange) ==
    LET versions == getVersions(S.storePackageVersions, name)
        exactVersion == findLatestMatch(versionRange, versions)
    IN IF S.err # "" THEN S
       ELSE IF isLinkDep(versionRange)
       THEN linkDepPackage(S, Proj, name, versionRange).S
       ELSE IF exactVersion # NoVersion
       THEN linkStorePackage(S, Proj, name, exactVersion)
       ELSE [S EXCEPT !.newDeps = Put(@, name, versionRange), !.hasNewDeps = TRUE]

addPackageDepsOf(S, section) ==
    IF section.has
    THEN Fold(LAMBDA T, kv : addPackageDep(T, kv[1], kv[2]), S, section.obj)
    ELSE S

\* the two loops over devDependencies (in dev mode) and dependencies that
\* call addPackageDep
addPackageDeps(S, options) ==
    addPackageDepsOf(IF options.dev THEN addPackageDepsOf(S, S.devDependencies) ELSE S,
                     S.dependencies)

\* the scratch directory after `npx npm i` has run
npmInstalled(S1, tree) ==
    IF tree = NpmFailed THEN Throw(S1, "npm install failed")
    ELSE [S1 EXCEPT !.tmp.nm = tree, !.scratch = tree]

\* `npx npm i` in the scratch directory, after the manifest
\* {dependencies} is written there
npmInstall(S, options, dependencies) ==
    npmInstalled([S EXCEPT !.npmInstalls = Append(@, dependencies),
                           !.tmp.exists = TRUE, !.tmp.json = dependencies],
                 NpmTree(dependencies, options.legacyPeerDeps, S.layout))

\* realpathSync of a node_modules directory reached at path: a symlinked
\* one is the directory that holds its package
RealNodeModules(path, nm) ==
    IF nm.k = "up" THEN SubSeq(path, 1, Len(path) - 1) ELSE path

\* realpathSync(packageDir) of the entry dirname of the directory at path
RealPackageDir(path, dirname) ==
    IF path = <<"proj">> THEN RealDir(dirname) ELSE Append(path, dirname)

RECURSIVE collectNodeModules(_, _, _, _, _)
RECURSIVE collectPackage(_, _, _, _, _)

\* the entries of the directory after collectPackage has seen one
collectedEntry(R, r, entry) ==
    IF IsHidden(entry.dir) THEN [R EXCEPT !.e = Append(@, entry)]
    ELSE [S |-> r.S, e |-> IF r.keep THEN Append(R.e, r.entry) ELSE R.e]

\* the loop of collectNodeModules over readdirSync(nodeModulesDir); gives
\* the state and the entries left in the directory
collectEntries(S, path, listing, depth) ==
    Fold(LAMBDA R, entry :
             collectedEntry(R, collectPackage(R.S, path, entry, listing, depth), entry),
         [S |-> S, e |-> <<>>], listing)

\* the directory as the loop leaves it
collectedNodeModules(out, nm) ==
    [S |-> out.S, nm |-> IF nm.k = "up" THEN nm ELSE DirNM(out.e)]

\* without `if (collectedNodeModules.has(realNodeModulesDir)) return`
collectNodeModulesNoVisited(S, path, nm, outer, depth) ==
    IF depth > MaxDepth THEN [S |-> Throw(S, "overflow"), nm |-> nm]
    ELSE collectedNodeModules(
             collectEntries(S, path, IF nm.k = "up" THEN outer ELSE nm.e, depth), nm)

\* nm is the directory found at path and outer the entries of the directory
\* that holds its package; gives the state and the directory as it is left
collectNodeModules(S, path, nm, outer, depth) ==
    IF depth > MaxDepth THEN [S |-> Throw(S, "overflow"), nm |-> nm]
    ELSE IF RealNodeModules(path, nm) \in S.collectedNodeModules THEN [S |-> S, nm |-> nm]
    ELSE collectedNodeModules(
             collectEntries(
                 [S EXCEPT !.collectedNodeModules = @ \cup {RealNodeModules(path, nm)}],
                 path, IF nm.k = "up" THEN outer ELSE nm.e, depth),
             nm)

\* the entry is left where it is
keptPackage(S, entry) == [S |-> S, keep |-> TRUE, entry |-> entry]

\* the end of collectPackage: the package goes to the store, or is removed
\* when the store has it; nested is what collectNodeModules gave for
\* <packageDir>/node_modules
storePackage(nested, entry, key) ==
    IF nested.S.err # ""
    THEN [S |-> nested.S, keep |-> TRUE, entry |-> [entry EXCEPT !.sub = nested.nm]]
    ELSE IF key \in nested.S.store
    THEN [S |-> [nested.S EXCEPT !.removed = @ \cup {key}],
          keep |-> FALSE, entry |-> entry]
    ELSE [S |-> [nested.S EXCEPT !.store = @ \cup {key},
                                 !.moved = @ \cup {key},
                                 !.nmDirs = IF entry.sub.k = "dir"
                                            THEN @ \cup {StoreDir(key[1], key[2])}
                                            ELSE @],
          keep |-> FALSE, entry |-> entry]

\* `if (existsSync(nodeModulesDir)) collectNodeModules(nodeModulesDir)`
nestedNodeModules(S, path, entry, listing, depth) ==
    IF entry.sub.k \in {"dir", "up"}
    THEN collectNodeModules(S, Append(path, entry.dir), entry.sub, listing, depth + 1)
    ELSE [S |-> S, nm |-> entry.sub]

\* moves the package before it looks for <packageDir>/node_modules, which
\* is then no longer there
collectPackageMovesFirst(S, path, entry, listing, depth) ==
    IF S.err # "" \/ entry.sym THEN keptPackage(S, entry)
    ELSE IF entry.name = "" THEN keptPackage(Throw(S, "missing package name"), entry)
    ELSE IF entry.version = NoVersion
    THEN keptPackage(Throw(S, "missing package version"), entry)
    ELSE IF RealPackageDir(path, entry.dir) \in S.linkedDepPackageDirs
    THEN keptPackage(S, entry)
    ELSE storePackage(
             [S |-> [S EXCEPT !.storePackageVersions =
                         @ \cup {Key(entry.name, entry.version)}],
              nm |-> NoNM],
             [entry EXCEPT !.sub = NoNM], Key(entry.name, entry.version))

\* gives the state, whether the entry is still in its directory, and the
\* entry as it is left
collectPackage(S, path, entry, listing, depth) ==
    IF S.err # "" \/ entry.sym THEN keptPackage(S, entry)
    ELSE IF entry.name = "" THEN keptPackage(Throw(S, "missing package name"), entry)
    ELSE IF entry.version = NoVersion
    THEN keptPackage(Throw(S, "missing package version"), entry)
    ELSE IF RealPackageDir(path, entry.dir) \in S.linkedDepPackageDirs
    THEN keptPackage(S, entry)
    ELSE storePackage(
             nestedNodeModules(
                 [S EXCEPT !.storePackageVersions =
                     @ \cup {Key(entry.name, entry.version)}],
                 path, entry, listing, depth),
             entry, Key(entry.name, entry.version))

absorbed(r) == [r.S EXCEPT !.tmp.nm = r.nm.e, !.absorbed = (r.S.err = "")]

\* collectNodeModules(tmpNodeModulesDir)
absorbNewDeps(S1) ==
    IF S1.err # "" THEN S1
    ELSE absorbed(collectNodeModules(S1, <<"tmp">>, DirNM(S1.tmp.nm), <<>>, 1))

\* the `if (hasNewDeps)` block without its collectNodeModules call
installNewDepsUnabsorbed(S, options) ==
    IF S.err # "" \/ ~S.hasNewDeps THEN S
    ELSE npmInstall(S, options, S.newDeps)

\* the `if (hasNewDeps)` block: the bootstrap installer, then absorb
installNewDeps(S, options) ==
    IF S.err # "" \/ ~S.hasNewDeps THEN S
    ELSE absorbNewDeps(npmInstall(S, options, S.newDeps))

SymEntries(names) == [i \in DOMAIN names |-> Sym(names[i][1])]

\* readdirSync(<projectDir>/node_modules)
ProjectListing(S) ==
    S.real
    \o SymEntries(SeqOfKeys({<<l.name, NoVersion>> : l \in {l \in S.links : l.nm = Proj}}))
    \o (IF \E b \in S.binLinks : b.nm = Proj THEN <<Hidden(".bin")>> ELSE <<>>)
    \o (IF S.tmp.exists THEN <<Hidden(".tmp")>> ELSE <<>>)

collectedProject(r) == [r.S EXCEPT !.real = Packages(r.nm.e)]

\* collectNodeModules(nodeModulesDir) of the project
collectProject(S) ==
    IF S.err # "" THEN S
    ELSE collectedProject(
             collectNodeModules(S, <<"proj">>, DirNM(ProjectListing(S)), <<>>, 1))

\* getMap2(depPackageDirs, nodeModulesDir).set(name, depPackageDir): the
\* table is a sequence, in the order the Map gives its entries
setRow(S, at, row) ==
    IF at = {} THEN [S EXCEPT !.depPackageDirs = Append(@, row)]
    ELSE [S EXCEPT !.depPackageDirs =
             [i \in DOMAIN @ |-> IF i \in at THEN row ELSE @[i]]]

setDepPackageDir(S, nm, name, depPackageDir) ==
    setRow(S,
           {i \in DOMAIN S.depPackageDirs :
               S.depPackageDirs[i].nm = nm /\ S.depPackageDirs[i].name = name},
           [nm |-> nm, name |-> name, dir |-> depPackageDir])

\* getPackageJson(packageDir).json of a store entry or a link: target
PackageJsonOf(packageDir) ==
    IF packageDir[1] = "path" THEN LinkPackageJson(packageDir[2])
    ELSE PackageJson(packageDir[2], packageDir[3])

BinLink(nm, name, packageDir, filename) ==
    [nm |-> nm, name |-> name, to |-> <<packageDir, filename>>]

\* linkBinFile: the shim <nm>/.bin/<name>, EEXIST swallowed
linkBinFile(S, nm, packageDir, name, filename) ==
    IF \E b \in S.binLinks : b.nm = nm /\ b.name = name THEN S
    ELSE [S EXCEPT !.binLinks = @ \cup {BinLink(nm, name, packageDir, filename)}]

\* bin is the object of shim names and file names (empty when the
\* package.json has none)
linkBin(S, nm, packageDir, name, bin) ==
    Fold(LAMBDA T, kv : linkBinFile(T, nm, packageDir, kv[1], kv[2]), S, bin)

RECURSIVE linkDeps(_, _, _, _)
RECURSIVE linkDep(_, _, _, _, _)

\* the node_modules directory of packageDir is named by packageDir
linkDeps(S, packageDir, dependencies, depth) ==
    LET body(T, kv) == linkDep(T, packageDir, kv[1], kv[2], depth)
        S1 == [S EXCEPT !.linkedDeps = @ \cup {packageDir},
                        !.nmDirs = IF dependencies # <<>> THEN @ \cup {packageDir} ELSE @]
    IN IF S.err # "" THEN S
       ELSE IF depth > MaxDepth THEN Throw(S, "overflow")
       ELSE IF packageDir \in S.linkedDeps THEN S
       ELSE Fold(body, S1, dependencies)

\* the end of linkDep, after linkDeps(depPackageDir, dependencies)
linkDepBin(S2, nm, name, exactVersion) ==
    IF S2.err # "" THEN S2
    ELSE linkBin(S2, nm, StoreDir(name, exactVersion), name,
                 PackageJson(name, exactVersion).bin)

\* S1 is the state after linkStorePackage and depPackageDirs.set
linkDepStored(S, S1, nm, name, exactVersion, depth) ==
    IF Key(name, exactVersion) \notin S.store THEN Throw(S1, "ENOENT")
    ELSE linkDepBin(linkDeps(S1, StoreDir(name, exactVersion),
                             PackageJson(name, exactVersion).dependencies, depth + 1),
                    nm, name, exactVersion)

linkDepVersion(S, nm, name, versionRange, exactVersion, depth) ==
    IF exactVersion = NoVersion THEN Throw(S, "missing package")
    ELSE linkDepStored(
             S,
             setDepPackageDir(
                 [linkStorePackage(S, nm, name, exactVersion) EXCEPT
                     !.resolved = @ \cup {<<nm, name, versionRange, exactVersion>>}],
                 nm, name, StoreDir(name, exactVersion)),
             nm, name, exactVersion, depth)

\* the isLinkDep branch of linkDep, after depPackageDirs.set
linkDepLinked(S0, nm, name, versionRange) ==
    IF versionRange.path \notin LinkPaths THEN Throw(S0, "ENOENT")
    ELSE linkBin(S0, nm, parseLinkDepPackageDir(versionRange), name,
                 LinkPackageJson(versionRange.path).bin)

linkDep(S, nm, name, versionRange, depth) ==
    IF S.err # "" THEN S
    ELSE IF isLinkDep(versionRange)
    THEN linkDepLinked(
             setDepPackageDir(S, nm, name, parseLinkDepPackageDir(versionRange)),
             nm, name, versionRange)
    ELSE linkDepVersion(S, nm, name, versionRange,
                        findLatestMatch(versionRange,
                                        getVersions(S.storePackageVersions, name)),
                        depth)

linkProjectDeps(S, has, deps) ==
    IF has THEN Fold(LAMBDA T, kv : linkDep(T, Proj, kv[1], kv[2], 1), S, deps) ELSE S

\* the three loops that call linkDep on the project's node_modules
linkProject(S, options) ==
    linkProjectDeps(
        linkProjectDeps(linkProjectDeps(S, TRUE, S.newInstallDeps),
                        S.devDependencies.has /\ options.dev, S.devDependencies.obj),
        S.dependencies.has, S.dependencies.obj)

ParentDeps(S, nm) == SelectSeq(S.depPackageDirs, LAMBDA d : d.nm = nm)

linkedPeerDep(S, S1, parent) ==
    [S1 EXCEPT !.peerCreated =
        @ \cup {[link |-> l, parent |-> parent] : l \in S1.links \ S.links}]

linkPeerDepAt(S, parent, parentDeps, nm, name, at) ==
    IF at = {} THEN S
    ELSE linkedPeerDep(
             S, makeSymbolicLink(S, parentDeps[CHOOSE i \in at : TRUE].dir, nm, name),
             parent)

\* parentDeps is the table of the node_modules directory `parent`
linkPeerDep(S, parent, parentDeps, nm, name) ==
    linkPeerDepAt(S, parent, parentDeps, nm, name,
                  {i \in DOMAIN parentDeps : parentDeps[i].name = name})

RECURSIVE linkPeerDeps(_, _, _)

\* the loop over json.peerDependenciesMeta;
\* `if (linkedPeerDeps.has(name)) return` leaves the callback at the first
\* name of stop
linkPeerDepsMeta(S2, parent, parentDeps, d, meta, stop, depth) ==
    IF stop # {}
    THEN Fold(LAMBDA T, name : linkPeerDep(T, parent, parentDeps, d.dir, name),
              S2, SubSeq(meta, 1, lowest(stop) - 1))
    ELSE linkPeerDeps(
             Fold(LAMBDA T, name : linkPeerDep(T, parent, parentDeps, d.dir, name),
                  S2, meta),
             d.dir, depth + 1)

linkPeerDepsJson(S, parent, parentDeps, d, json, depth) ==
    linkPeerDepsMeta(
        Fold(LAMBDA T, kv : linkPeerDep(T, parent, parentDeps, d.dir, kv[1]),
             [S EXCEPT !.nmDirs = @ \cup {Canon(d.dir)}], json.peerDependencies),
        parent, parentDeps, d, json.peerDependenciesMeta,
        {i \in DOMAIN json.peerDependenciesMeta :
            json.peerDependenciesMeta[i] \in Keys(json.peerDependencies)},
        depth)

\* the callback of parentDeps.forEach in linkPeerDeps; d is a row of the
\* parent's table
linkPeerDepsOf(S, parent, parentDeps, d, depth) ==
    IF S.err # "" THEN S
    ELSE linkPeerDepsJson(S, parent, parentDeps, d, PackageJsonOf(d.dir), depth)

linkPeerDepsIn(S1, nm, parentDeps, depth) ==
    Fold(LAMBDA T, d : linkPeerDepsOf(T, nm, parentDeps, d, depth), S1, parentDeps)

linkPeerDeps(S, nm, depth) ==
    IF S.err # "" THEN S
    ELSE IF depth > MaxDepth THEN Throw(S, "overflow")
    ELSE IF Canon(nm) \in S.linkedPeerDeps THEN S
    ELSE linkPeerDepsIn([S EXCEPT !.linkedPeerDeps = @ \cup {Canon(nm)}], nm,
                        ParentDeps(S, nm), depth)

\* the names of the directories of the store, as readdirSync gives them,
\* split at the `@`s: [name, version] = dirname.split('@')
scanStorePackages(storeDir) ==
    {Key(dirname[1], IF Len(dirname) >= 2 THEN dirname[2] ELSE NoVersion) :
        dirname \in storeDir}

\* without `if (!existsSync(packageFile))`
initPackageFileAlways(S) ==
    [S EXCEPT !.manifestExists = TRUE,
              !.manifest = [dependencies |-> NoSection, devDependencies |-> NoSection],
              !.manifestWrites = @ + 1]

initPackageFile(S) ==
    IF S.manifestExists THEN S
    ELSE [S EXCEPT !.manifestExists = TRUE,
                   !.manifest = [dependencies |-> NoSection, devDependencies |-> NoSection],
                   !.manifestWrites = @ + 1]

installPackages(S, options) ==
    LET S0 == [S EXCEPT !.packageJson = S.manifest,
                        !.dependencies = S.manifest.dependencies,
                        !.devDependencies = S.manifest.devDependencies]
        S1 == installTokens(S0, options)
        S2 == uninstallTokens(S1, options)
        S3 == writePackageJson(S2)
        S4 == addPackageDeps(S3, options)
        S5 == installNewDeps(S4, options)
        S6 == collectProject(S5)
        S7 == linkProject(S6, options)
    IN linkPeerDeps(S7, Proj, 1)

\* the state of a process started on the disk `disk`
Process(disk) ==
    [store |-> disk.store, links |-> disk.links, binLinks |-> disk.binLinks,
     nmDirs |-> disk.nmDirs, real |-> disk.real, tmp |-> disk.tmp,
     manifest |-> disk.manifest, manifestExists |-> disk.manifestExists,
     layout |-> disk.layout,
     storePackageVersions |-> {}, collectedNodeModules |-> {},
     linkedDepPackageDirs |-> {},
     packageJson |-> disk.manifest,
     dependencies |-> NoSection, devDependencies |-> NoSection,
     hasUpdatedPackageJson |-> FALSE,
     newDeps |-> <<>>, hasNewDeps |-> FALSE, newInstallDeps |-> <<>>,
     linkedDeps |-> {}, depPackageDirs |-> <<>>, linkedPeerDeps |-> {},
     err |-> "",
     \* what the run did, for the properties
     created |-> {}, peerCreated |-> {}, resolved |-> {},
     npmInstalls |-> <<>>, npmViews |-> <<>>, scratch |-> <<>>,
     absorbed |-> FALSE, moved |-> {}, removed |-> {}, manifestWrites |-> 0]

scanned(S0) == [S0 EXCEPT !.storePackageVersions = scanStorePackages(S0.store)]

\* main(options), without --recursive
main(disk, options) == installPackages(initPackageFile(scanned(Process(disk))), options)

\* ------------------------------------------------------------------------
\* The command line: a string is the sequence of its characters
\* ------------------------------------------------------------------------

\* the most parts a package argument of the model is made of
MaxParts == 3

\* the characters of the string literals the command line is compared with
Str(word) ==
    CASE word = "install" -> <<"i", "n", "s", "t", "a", "l", "l">>
      [] word = "i" -> <<"i">>
      [] word = "add" -> <<"a", "d", "d">>
      [] word = "a" -> <<"a">>
      [] word = "uninstall" -> <<"u", "n", "i", "n", "s", "t", "a", "l", "l">>
      [] word = "u" -> <<"u">>
      [] word = "remove" -> <<"r", "e", "m", "o", "v", "e">>
      [] word = "r" -> <<"r">>
      [] word = "--dev" -> <<"-", "-", "d", "e", "v">>
      [] word = "--prod" -> <<"-", "-", "p", "r", "o", "d">>
      [] word = "--store-dir" -> <<"-", "-", "s", "t", "o", "r", "e", "-", "d", "i", "r">>
      [] word = "--verbose" -> <<"-", "-", "v", "e", "r", "b", "o", "s", "e">>
      [] word = "-v" -> <<"-", "v">>
      [] word = "--quiet" -> <<"-", "-", "q", "u", "i", "e", "t">>
      [] word = "-q" -> <<"-", "q">>
      [] word = "-P" -> <<"-", "P">>
      [] word = "--save-prod" -> <<"-", "-", "s", "a", "v", "e", "-", "p", "r", "o", "d">>
      [] word = "-D" -> <<"-", "D">>
      [] word = "--save-dev" -> <<"-", "-", "s", "a", "v", "e", "-", "d", "e", "v">>
      [] word = "-r" -> <<"-", "r">>
      [] word = "--recursive" -> <<"-", "-", "r", "e", "c", "u", "r", "s", "i", "v", "e">>
      [] word = "--legacy-peer-deps" -> <<"-", "-", "l", "e", "g", "a", "c", "y", "-", "p", "e", "e", "r", "-", "d", "e", "p", "s">>
      [] word = "--version" -> <<"-", "-", "v", "e", "r", "s", "i", "o", "n">>
      [] word = "--help" -> <<"-", "-", "h", "e", "l", "p">>
      [] word = "link:" -> <<"l", "i", "n", "k", ":">>
      [] word = "file:" -> <<"f", "i", "l", "e", ":">>
      [] word = ":dts" -> <<":", "d", "t", "s">>
      [] word = ":ts" -> <<":", "t", "s">>
      [] word = "@types/" -> <<"@", "t", "y", "p", "e", "s", "/">>
      [] word = "/" -> <<"/">>
      [] word = "__" -> <<"_", "_">>
      [] word = "@" -> <<"@">>
      [] word = "ts" -> <<"t", "s">>
      [] word = "-" -> <<"-">>
      [] word = "~/.slnpm-store" -> <<"~", "/", ".", "s", "l", "n", "p", "m", "-", "s", "t", "o", "r", "e">>
      [] word = "b" -> <<"b">>
      [] word = "@o" -> <<"@", "o">>
      [] word = "@o/a" -> <<"@", "o", "/", "a">>
      [] word = "@o/b" -> <<"@", "o", "/", "b">>
      [] word = "1.0.0" -> <<"1", ".", "0", ".", "0">>
      [] word = "1.1.0" -> <<"1", ".", "1", ".", "0">>
      [] word = "^" -> <<"^">>
      [] word = "latest" -> <<"l", "a", "t", "e", "s", "t">>
      [] word = "@types/a" -> <<"@", "t", "y", "p", "e", "s", "/", "a">>
      [] word = ".git" -> <<".", "g", "i", "t">>
      [] word = "node_modules" -> <<"n", "o", "d", "e", "_", "m", "o", "d", "u", "l", "e", "s">>
      [] word = "package.json" -> <<"p", "a", "c", "k", "a", "g", "e", ".", "j", "s", "o", "n">>
      [] word = "x" -> <<"x">>
      [] word = "y" -> <<"y">>
      [] word = "~" -> <<"~">>
      [] word = "*" -> <<"*">>
      [] word = "." -> <<".">>
      [] word = ".*" -> <<".", "*">>
      [] word = ">=" -> <<">", "=">>
      [] word = " <" -> <<" ", "<">>

\* String.prototype.startsWith
startsWith(s, p) == Len(s) >= Len(p) /\ SubSeq(s, 1, Len(p)) = p

\* String.prototype.slice(n)
slice(s, n) == SubSeq(s, n + 1, Len(s))

\* String.prototype.indexOf, counting from 1; 0 when p does not occur
indexOf(s, p) ==
    IF \E i \in 1..(Len(s) - Len(p) + 1) : SubSeq(s, i, i + Len(p) - 1) = p
    THEN CHOOSE i \in 1..(Len(s) - Len(p) + 1) :
            /\ SubSeq(s, i, i + Len(p) - 1) = p
            /\ \A j \in 1..(i - 1) : SubSeq(s, j, j + Len(p) - 1) # p
    ELSE 0

\* String.prototype.includes
includes(s, p) == indexOf(s, p) # 0

replaceAt(s, i, p, r) == SubSeq(s, 1, i - 1) \o r \o slice(s, i + Len(p) - 1)

\* String.prototype.replace with a string pattern: the first occurrence
replace(s, p, r) == IF includes(s, p) THEN replaceAt(s, indexOf(s, p), p, r) ELSE s

\* isLinkDep(dep) on the token as the command line hands it over
isLinkDepArg(dep) == startsWith(dep, Str("link:")) \/ startsWith(dep, Str("file:"))

\* parseLinkDepPackageDir(dep) on the token as the command line hands it over
parseLinkDepPackageDirArg(dep) == slice(dep, Len(Str("link:")))

\* toTypesDep without the case of a scoped name
toTypesDepPlain(dep) == Str("@types/") \o dep

toTypesDep(dep) ==
    IF dep # <<>> /\ dep[1] = "@"
    THEN Str("@types/") \o replace(slice(dep, 1), Str("/"), Str("__"))
    ELSE Str("@types/") \o dep

push(c, target, dep) ==
    IF target = "deps" THEN [c EXCEPT !.installDeps = Append(@, dep)]
    ELSE [c EXCEPT !.installDevDeps = Append(@, dep)]

addDepTs(c, dep, target) == push(push(c, target, dep), target, toTypesDep(dep))

addDepDts(c, dep, target) == push(push(c, target, dep), "devDeps", toTypesDep(dep))

addDep(c, arg, target) ==
    IF includes(arg, Str(":dts")) THEN addDepDts(c, replace(arg, Str(":dts"), <<>>), target)
    ELSE IF includes(arg, Str(":ts")) THEN addDepTs(c, replace(arg, Str(":ts"), <<>>), target)
    ELSE push(c, target, arg)

\* the variables of the command line before the loop over process.argv
cliStart ==
    [i |-> 1, mode |-> "", installTarget |-> "deps", dev |-> TRUE,
     verbose |-> FALSE, recursive |-> FALSE, legacyPeerDeps |-> FALSE,
     storeDir |-> Str("~/.slnpm-store"),
     installDeps |-> <<>>, installDevDeps |-> <<>>, uninstallDeps |-> <<>>,
     exit |-> ""]

exit(c, code) == [c EXCEPT !.exit = code]

\* --store-dir takes the argument after it
storeDirArg(c, args) ==
    IF c.i > Len(args) THEN exit([c EXCEPT !.i = @ + 1], "1")
    ELSE [c EXCEPT !.i = @ + 1, !.storeDir = args[c.i]]

\* the default case of the switch: a package argument
packageArg(c, arg) ==
    IF c.mode = "default" \/ (arg # <<>> /\ arg[1] = "-") THEN exit(c, "1")
    ELSE IF c.mode = "uninstall" THEN [c EXCEPT !.uninstallDeps = Append(@, arg)]
    ELSE addDep(c, arg, c.installTarget)

\* the switch on an argument once the mode is known
optionArg(c, arg, args) ==
    CASE arg = Str("--dev") -> [c EXCEPT !.dev = TRUE]
      [] arg = Str("--prod") -> [c EXCEPT !.dev = FALSE]
      [] arg = Str("--store-dir") -> storeDirArg(c, args)
      [] arg \in {Str("--verbose"), Str("-v")} -> [c EXCEPT !.verbose = TRUE]
      [] arg \in {Str("--quiet"), Str("-q")} -> [c EXCEPT !.verbose = FALSE]
      [] arg \in {Str("-P"), Str("--save-prod")} -> [c EXCEPT !.installTarget = "deps"]
      [] arg \in {Str("-D"), Str("--save-dev")} ->
            [c EXCEPT !.installTarget = "devDeps", !.dev = TRUE]
      [] arg \in {Str("-r"), Str("--recursive")} -> [c EXCEPT !.recursive = TRUE]
      [] arg = Str("--legacy-peer-deps") -> [c EXCEPT !.legacyPeerDeps = TRUE]
      [] arg \in {Str("--version"), Str("--help")} -> exit(c, "0")
      [] OTHER -> packageArg(c, arg)

\* one turn of the loop over process.argv
cliArg(c, arg, args) ==
    IF c.mode = "" /\ arg \in {Str("install"), Str("i"), Str("add"), Str("a")}
    THEN [c EXCEPT !.i = @ + 1, !.mode = "install"]
    ELSE IF c.mode = "" /\ arg \in {Str("uninstall"), Str("u"), Str("remove"), Str("r")}
    THEN [c EXCEPT !.i = @ + 1, !.mode = "uninstall"]
    ELSE optionArg([c EXCEPT !.i = @ + 1,
                             !.mode = IF @ = "" THEN "default" ELSE @], arg, args)

\* after the loop: the fallback for a trailing -D, then main() is called
cliEnd(c) ==
    IF c.installTarget = "devDeps" /\ c.installDevDeps = <<>>
    THEN [c EXCEPT !.installDevDeps = c.installDeps, !.installDeps = <<>>,
                   !.exit = "main"]
    ELSE exit(c, "main")

\* the pieces the package arguments of the model are made of
Parts == {Str("a"), Str("/"), Str("@"), Str("ts"), Str(":ts"), Str(":dts")}

RECURSIVE Paths(_)
\* the strings made of 1..n parts
Paths(n) ==
    IF n = 0 THEN {<<>>}
    ELSE Parts \cup {p \o q : p \in Parts, q \in Paths(n - 1)}

\* the package arguments of the model: names and LinkSpecs
PackageArgs ==
    {prefix \o path : prefix \in {<<>>, Str("link:"), Str("file:")},
                      path \in Paths(MaxParts) \ {<<>>}}

\* package names, simple and scoped, by the organisation and the name
ShortcutNames ==
    {[org |-> org, name |-> name] : org \in {<<>>, <<"o">>, Str("ts")},
                                    name \in {Str("a"), Str("ts"), Str("b")}}

\* the name as it is typed: name or @org/name
nameText(n) == IF n.org = <<>> THEN n.name ELSE Str("@") \o n.org \o Str("/") \o n.name

\* the arguments with a types shortcut: <name>:ts and <name>:dts
ShortcutArgs == {nameText(n) \o suffix : n \in ShortcutNames, suffix \in {Str(":ts"), Str(":dts")}}

\* the command lines of the model
Argvs ==
    {<<word>> \o pre \o <<arg>> \o post :
        word \in {Str("i"), Str("u")},
        pre \in {<<>>, <<Str("-D")>>},
        arg \in PackageArgs \cup ShortcutArgs,
        post \in {<<>>, <<Str("-D")>>, <<Str("-P"), Str("a")>>}}
    \cup {<<>>, <<Str("--prod")>>, <<Str("--store-dir")>>,
          <<Str("-r"), Str("--store-dir"), Str("/")>>, <<Str("-"), Str("a")>>,
          <<Str("install"), Str("--help"), Str("a")>>}

\* ------------------------------------------------------------------------
\* The state: the disk, and the last run of the installer
\* ------------------------------------------------------------------------

VARIABLES
    store,          \* the directories of the store, by the parts of their names
    links,          \* the symlinks <nm>/<name> -> to, in every node_modules
    binLinks,       \* the shims <nm>/.bin/<name>
    nmDirs,         \* the packages that have a node_modules directory
    real,           \* the real directories of the project's node_modules
    tmp,            \* the scratch directory <projectDir>/node_modules/.tmp
    manifest,       \* the project's package.json
    manifestExists,
    layout,         \* how the machine's npm lays out a node_modules tree
    runs,           \* the number of runs so far
    last,           \* the last run: its options, the disk it started on, the
                    \* final state of its process, and the run before it
    argv,           \* process.argv after the script's name
    cli,            \* the variables of the command line
    world,          \* two installers at once: the packages as published,
                    \* the store they started on, the draft they run
    shared,         \* two installers at once: the store they share
    proc,           \* two installers at once: each one's position
    ctx,            \* direct fetch: the caches of the store object
    ops,            \* direct fetch: the resolve-and-download operations
    reqs,           \* direct fetch: the install requests and what they got
    wg,             \* a WaitGroup: pending, errors, callbacks, and what the
                    \* callbacks were called with
    subs,           \* the sub-operations registered with the WaitGroup
    tree,           \* the store by its names: the paths of its directories
    index,          \* the store by its names: storePackageVersions
    scan,           \* the store by its names: where the run is, what it absorbed
    query,          \* a range and the versions to match it with
    answer,         \* what findLatestMatch returned for the query
    files,          \* executables: the first byte and the mode of each file
    setBinPermissionCache,
    binDir,         \* executables: the symlinks of node_modules/.bin
    walk,           \* recursive mode: the directories and where the scan is
    rec,            \* recursive mode: the projects and the run over them
    absorb          \* absorb alone: the scratch directory, the store entries
                    \* with what they hold, the index

coreVars == <<store, links, binLinks, nmDirs, real, tmp, manifest, manifestExists,
              layout, runs, last>>

cliVars == <<argv, cli>>

raceVars == <<world, shared, proc>>

fetchVars == <<ctx, ops, reqs>>

waitVars == <<wg, subs>>

scanVars == <<tree, index, scan>>

matchVars == <<query, answer>>

binVars == <<files, setBinPermissionCache, binDir>>

recursiveVars == <<walk, rec>>

absorbVars == <<absorb>>

vars == <<coreVars, cliVars, raceVars, fetchVars, waitVars, scanVars, matchVars, binVars,
          recursiveVars, absorbVars>>

Disk ==
    [store |-> store, links |-> links, binLinks |-> binLinks, nmDirs |-> nmDirs,
     real |-> real, tmp |-> tmp, manifest |-> manifest,
     manifestExists |-> manifestExists, layout |-> layout]

Options(dev, toDeps, toDevDeps, toUninstall, legacyPeerDeps) ==
    [dev |-> dev, installDeps |-> toDeps, installDevDeps |-> toDevDeps,
     uninstallDeps |-> toUninstall, legacyPeerDeps |-> legacyPeerDeps]

Token(name, range) == [name |-> name, range |-> range]

Manifest(dependencies, devDependencies) ==
    [dependencies |-> dependencies, devDependencies |-> devDependencies]

\* the project manifests a behaviour may start from
Manifests ==
    { Manifest(Section(<<<<"c", Caret(V100)>>, <<"a", Caret(V100)>>>>), NoSection),
      Manifest(Section(<<<<"b", Caret(V100)>>, <<"a", Caret(V100)>>>>),
               Section(<<<<"c", Caret(V100)>>>>)),
      Manifest(Section(<<<<"a", Tilde(V100)>>>>), Section(<<<<"c", Latest>>, <<"b", Star>>>>)),
      Manifest(Section(<<<<"d", LinkSpec("/lib")>>, <<"a", Caret(V100)>>>>), NoSection),
      Manifest(Section(<<<<"b", Caret(V200)>>>>), NoSection),
      Manifest(NoSection, NoSection) }

\* the stores a behaviour may start from: empty, an old version of `a`
\* alone, every published package
Stores ==
    { {}, {Key("a", V100)}, Published }

\* the real directories a behaviour may find in the project's
\* node_modules: none, or packages another installer left there, one with
\* a node_modules that links back to the directory that holds it and one
\* with a node_modules that links to itself
Reals ==
    { <<>>,
      <<Pkg("a", V100, UpNM), Pkg("b", V100, DirNM(<<Pkg("a", V110, LoopNM)>>))>> }

NoRun ==
    [options |-> Options(FALSE, <<>>, <<>>, <<>>, FALSE), mode |-> "none",
     prev |-> [options |-> Options(FALSE, <<>>, <<>>, <<>>, FALSE), mode |-> "none",
               err |-> ""],
     pre |-> [store |-> {}, links |-> {}, real |-> <<>>,
              manifest |-> Manifest(NoSection, NoSection), manifestExists |-> FALSE],
     S |-> Process([store |-> {}, links |-> {}, binLinks |-> {}, nmDirs |-> {},
                    real |-> <<>>, tmp |-> [exists |-> FALSE, json |-> <<>>, nm |-> <<>>],
                    manifest |-> Manifest(NoSection, NoSection),
                    manifestExists |-> FALSE, layout |-> "hoisted"])]

\* no command line is being read
CliIdle == argv = <<>> /\ cli = cliStart

\* no two installers share the store
RaceIdle == world = <<>> /\ shared = <<>> /\ proc = <<>>

\* no direct fetch
FetchIdle == ctx = <<>> /\ ops = <<>> /\ reqs = <<>>

\* no WaitGroup
WaitIdle == wg = <<>> /\ subs = <<>>

\* no store by its names
ScanIdle == tree = <<>> /\ index = <<>> /\ scan = <<>>

\* no query
MatchIdle == query = <<>> /\ answer = <<>>

\* nothing but the installer on its disk
\* no executable is being linked
BinIdle == files = <<>> /\ setBinPermissionCache = <<>> /\ binDir = <<>>

\* no recursive run
RecursiveIdle == walk = <<>> /\ rec = <<>>

\* no absorb alone
AbsorbIdle == absorb = <<>>

OthersIdle ==
    /\ CliIdle /\ RaceIdle /\ FetchIdle /\ WaitIdle /\ ScanIdle /\ MatchIdle /\ BinIdle
    /\ RecursiveIdle /\ AbsorbIdle

Init ==
    /\ store \in Stores
    /\ links = {}
    /\ binLinks = {}
    /\ nmDirs = {}
    /\ real \in Reals
    /\ tmp = [exists |-> FALSE, json |-> <<>>, nm |-> <<>>]
    /\ \E m \in Manifests :
          /\ manifest = m
          /\ manifestExists = (m # Manifest(NoSection, NoSection))
    /\ layout \in {"hoisted", "nested"}
    /\ runs = 0
    /\ last = NoRun
    /\ OthersIdle

\* the disk and the record of the run after main() has returned
Ran(mode, options, S) ==
    /\ runs < MaxRuns
    /\ runs' = runs + 1
    /\ store' = S.store
    /\ links' = S.links
    /\ binLinks' = S.binLinks
    /\ nmDirs' = S.nmDirs
    /\ real' = S.real
    /\ tmp' = S.tmp
    /\ manifest' = S.manifest
    /\ manifestExists' = S.manifestExists
    /\ layout' = layout
    /\ last' = [options |-> options, mode |-> mode,
                prev |-> [options |-> last.options, mode |-> last.mode,
                          err |-> last.S.err],
                pre |-> [store |-> store, links |-> links, real |-> real,
                         manifest |-> manifest, manifestExists |-> manifestExists],
                S |-> S]
    /\ UNCHANGED <<binVars, absorbVars, recursiveVars, cliVars, raceVars, fetchVars, waitVars, scanVars, matchVars>>

\* one run of the installer with the given options
Run(mode, options) == Ran(mode, options, main(Disk, options))

\* `slnpm [--prod] [--legacy-peer-deps]`
InstallDefault ==
    \E dev \in BOOLEAN, legacyPeerDeps \in BOOLEAN :
        /\ dev \/ ~legacyPeerDeps
        /\ Run("default", Options(dev, <<>>, <<>>, <<>>, legacyPeerDeps))

\* the package tokens of the install command lines of the model
InstallTokens ==
    { <<Token("a", NoRange)>>,
      <<Token("b", Caret(V100))>>,
      <<Token("a", Latest), Token("", LinkSpec("/lib"))>>,
      <<Token("", LinkSpec("../lib"))>> }

\* `slnpm install [-D] <tokens>`
Install ==
    \E tokens \in InstallTokens, saveDev \in BOOLEAN :
        /\ saveDev => tokens = <<Token("b", Caret(V100))>>
        /\ Run("install",
               IF saveDev THEN Options(TRUE, <<>>, tokens, <<>>, FALSE)
               ELSE Options(TRUE, tokens, <<>>, <<>>, FALSE))

UninstallTokens ==
    { <<Token("a", NoRange)>>, <<Token("c", NoRange), Token("b", Caret(V100))>> }

\* `slnpm uninstall <tokens>`
Uninstall ==
    \E tokens \in UninstallTokens :
        Run("uninstall", Options(TRUE, <<>>, <<>>, tokens, FALSE))

Next == InstallDefault \/ Install \/ Uninstall

Spec == Init /\ [][Next]_vars

\* a project in which an earlier install linked `a` from the store, and
\* whose package.json has been edited since
InitStale ==
    /\ store \in Stores \ {{}}
    /\ links = {Link(Proj, "a", StoreDir("a", V100))}
    /\ binLinks = {}
    /\ nmDirs = {}
    /\ real \in Reals
    /\ tmp = [exists |-> FALSE, json |-> <<>>, nm |-> <<>>]
    /\ \E m \in Manifests :
          /\ manifest = m
          /\ manifestExists = (m # Manifest(NoSection, NoSection))
    /\ layout \in {"hoisted", "nested"}
    /\ runs = 0
    /\ last = NoRun
    /\ OthersIdle

SpecStale == InitStale /\ [][Next]_vars

\* a store that holds a@1.1.0 without the b@1.0.0 it depends on (an
\* absorb that was interrupted between its two moves, or a store directory
\* removed by hand)
InitPartial ==
    /\ store \in {{Key("a", V110)}, {Key("a", V110), Key("c", V100)}}
    /\ links = {}
    /\ binLinks = {}
    /\ nmDirs = {}
    /\ real = <<>>
    /\ tmp = [exists |-> FALSE, json |-> <<>>, nm |-> <<>>]
    /\ \E m \in Manifests :
          /\ manifest = m
          /\ manifestExists = (m # Manifest(NoSection, NoSection))
    /\ layout \in {"hoisted", "nested"}
    /\ runs = 0
    /\ last = NoRun
    /\ OthersIdle

SpecPartial == InitPartial /\ [][Next]_vars

\* ------------------------------------------------------------------------
\* The command line alone, up to its call of main()
\* ------------------------------------------------------------------------

\* a disk on which nothing runs
CoreIdle ==
    /\ store = {}
    /\ links = {}
    /\ binLinks = {}
    /\ nmDirs = {}
    /\ real = <<>>
    /\ tmp = [exists |-> FALSE, json |-> <<>>, nm |-> <<>>]
    /\ manifest = Manifest(NoSection, NoSection)
    /\ manifestExists = FALSE
    /\ layout = "hoisted"
    /\ runs = 0
    /\ last = NoRun

InitCli ==
    /\ CoreIdle
    /\ AbsorbIdle
    /\ BinIdle
    /\ RecursiveIdle
    /\ MatchIdle
    /\ RaceIdle
    /\ FetchIdle
    /\ WaitIdle
    /\ ScanIdle
    /\ argv \in Argvs
    /\ cli = cliStart

\* one turn of the loop over the arguments
CliArg ==
    /\ cli.exit = ""
    /\ cli.i <= Len(argv)
    /\ cli' = cliArg(cli, argv[cli.i], argv)
    /\ UNCHANGED <<coreVars, binVars, absorbVars, recursiveVars, raceVars, fetchVars, waitVars, scanVars, matchVars, argv>>

\* the loop is over
CliEnd ==
    /\ cli.exit = ""
    /\ cli.i > Len(argv)
    /\ cli' = cliEnd(cli)
    /\ UNCHANGED <<coreVars, binVars, absorbVars, recursiveVars, raceVars, fetchVars, waitVars, scanVars, matchVars, argv>>

NextCli == CliArg \/ CliEnd

SpecCli == InitCli /\ [][NextCli]_vars

\* ------------------------------------------------------------------------
\* Two installers absorbing into one store, step by step
\* ------------------------------------------------------------------------

Installers == {1, 2}

RaceNames == {"a", "b"}

\* what a published package holds under its own name: nothing, a file, an
\* empty directory, a directory with files
SelfEntries == {"none", "file", "emptydir", "dir"}

\* no directory <storeDir>/<name>@<version>
Absent == [json |-> "", self |-> "none"]

\* the directory of a package: its package.json and the entry named as
\* the directory itself
PackageDir(name, self) == [json |-> name, self |-> self]

\* `mv src dest` with rename(2): dest itself when there is no dest, else
\* the entry of dest named as src
mvTarget(dest, src) ==
    IF dest = Absent THEN src
    ELSE IF dest.self \in {"none", "emptydir"} THEN [dest EXCEPT !.self = "dir"]
    ELSE dest

mvError(dest) ==
    IF dest = Absent \/ dest.self \in {"none", "emptydir"} THEN ""
    ELSE IF dest.self = "dir" THEN "Directory not empty"
    ELSE "cannot overwrite non-directory"

\* an installer before its absorb: the packages of its scratch tree
Installer(todo) ==
    [pc |-> "collect", work |-> todo, todo |-> todo, absorbed |-> {}, err |-> ""]

\* the next package of the scratch tree, or the end of the absorb
collected(q) ==
    [q EXCEPT !.todo = Tail(@), !.absorbed = @ \cup {Head(q.todo)},
              !.pc = IF Len(q.todo) = 1 THEN "link" ELSE "collect"]

failed(q, err) == [q EXCEPT !.pc = "failed", !.err = err]

InitRace ==
    /\ CoreIdle
    /\ AbsorbIdle
    /\ BinIdle
    /\ RecursiveIdle
    /\ MatchIdle
    /\ CliIdle
    /\ FetchIdle
    /\ WaitIdle
    /\ ScanIdle
    /\ \E self \in [RaceNames -> SelfEntries], had \in SUBSET RaceNames,
          draft \in {"core", "part_002"} :
            /\ world = [self |-> self, had |-> had, draft |-> draft]
            /\ shared = [n \in RaceNames |->
                            IF n \in had THEN PackageDir(n, self[n]) ELSE Absent]
    /\ proc \in [Installers -> {Installer(todo) : todo \in {<<"a">>, <<"a", "b">>, <<"b", "a">>}}]

\* core.ts: existsSync(storePackageDir)
ExistsSync(p) ==
    /\ world.draft = "core"
    /\ proc[p].pc = "collect"
    /\ proc' = [proc EXCEPT ![p].pc =
                    IF shared[Head(proc[p].todo)] # Absent THEN "rm" ELSE "mv"]
    /\ UNCHANGED <<coreVars, binVars, absorbVars, recursiveVars, cliVars, fetchVars, waitVars, scanVars, matchVars, world, shared>>

\* core.ts: rmSync(packageDir, {recursive: true})
RmSync(p) ==
    /\ proc[p].pc = "rm"
    /\ proc' = [proc EXCEPT ![p] = collected(@)]
    /\ UNCHANGED <<coreVars, binVars, absorbVars, recursiveVars, cliVars, fetchVars, waitVars, scanVars, matchVars, world, shared>>

\* core.ts: mv(packageDir, storePackageDir), any error of mv thrown
Mv(p) ==
    /\ proc[p].pc = "mv"
    /\ shared' = [shared EXCEPT ![Head(proc[p].todo)] =
                    mvTarget(@, PackageDir(Head(proc[p].todo), world.self[Head(proc[p].todo)]))]
    /\ proc' = [proc EXCEPT ![p] =
                    IF mvError(shared[Head(proc[p].todo)]) = "" THEN collected(@)
                    ELSE failed(@, mvError(shared[Head(proc[p].todo)]))]
    /\ UNCHANGED <<coreVars, binVars, absorbVars, recursiveVars, cliVars, fetchVars, waitVars, scanVars, matchVars, world>>

\* part_002: mv(waitGroup, packageDir, storePackageDir, cb), with no
\* look at the store before it and `Directory not empty` taken as success
MvAsync(p) ==
    /\ world.draft = "part_002"
    /\ proc[p].pc = "collect"
    /\ shared' = [shared EXCEPT ![Head(proc[p].todo)] =
                    mvTarget(@, PackageDir(Head(proc[p].todo), world.self[Head(proc[p].todo)]))]
    /\ proc' = [proc EXCEPT ![p] =
                    IF mvError(shared[Head(proc[p].todo)]) \in {"", "Directory not empty"}
                    THEN collected(@)
                    ELSE failed(@, mvError(shared[Head(proc[p].todo)]))]
    /\ UNCHANGED <<coreVars, binVars, absorbVars, recursiveVars, cliVars, fetchVars, waitVars, scanVars, matchVars, world>>

\* the link pass after the absorb: every absorbed package is read from
\* its directory of the store
LinkAbsorbed(p) ==
    /\ proc[p].pc = "link"
    /\ proc' = [proc EXCEPT ![p] =
                    IF \A n \in proc[p].absorbed : shared[n].json = n
                    THEN [@ EXCEPT !.pc = "done"]
                    ELSE failed(@, "ENOENT")]
    /\ UNCHANGED <<coreVars, binVars, absorbVars, recursiveVars, cliVars, fetchVars, waitVars, scanVars, matchVars, world, shared>>

NextRace ==
    \E p \in Installers :
        ExistsSync(p) \/ RmSync(p) \/ Mv(p) \/ MvAsync(p) \/ LinkAbsorbed(p)

SpecRace == InitRace /\ [][NextRace]_vars

\* ------------------------------------------------------------------------
\* The direct fetch drafts: requests, registry answers and downloads as
\* the turns of one event loop
\* ------------------------------------------------------------------------

\* the most install requests of a run
MaxRequests == 3

\* the drafts: class Store with hotPackages, class Store with
\* remotePackageCache, the functions over a Context
Drafts == {"part_000", "part_001", "part_003"}

\* the keys packageName@versionRange that are requested; b@2.0.0 is not
\* published
FetchKeys == {<<"a", Caret(V100)>>, <<"a", Latest>>, <<"b", Exact(V200)>>}

FetchNames == {k[1] : k \in FetchKeys}

\* no promise under a key of hotPackages / remotePackageCache
NoPromise == [op |-> 0, v |-> NoVersion]

\* Promise.resolve(exactVersion)
Resolved(v) == [op |-> 0, v |-> v]

\* the promise of the operation op
PromiseOf(op) == [op |-> op, v |-> NoVersion]

getPackageInfoUncached(c, packageName) ==
    [c EXCEPT !.info[packageName] = "pending", !.infoRequests[packageName] = @ + 1]

\* Store.getPackageInfo: the promise of packageInfoCache, or a fetch that
\* is put there; the getPackageInfo of the Context draft is the fetch alone
getPackageInfo(c, packageName) ==
    IF c.draft # "part_003" /\ c.info[packageName] # "none" THEN c
    ELSE [c EXCEPT !.info[packageName] = "pending", !.infoRequests[packageName] = @ + 1]

\* the versions of a package in onDiskPackages / the store index
onDiskVersions(c, packageName) == {k[2] : k \in {k \in c.onDisk : k[1] = packageName}}

RECURSIVE sortVersions(_)
\* Array.prototype.sort with the order of semver.lt and semver.gt
sortVersions(versions) ==
    IF versions = {} THEN <<>>
    ELSE Append(sortVersions(versions \ {MaxVersion(versions)}), MaxVersion(versions))

\* Array.prototype.pop: undefined for an empty array
pop(array) == IF array = <<>> THEN NoVersion ELSE array[Len(array)]

\* findLatestMatch of the drafts: the filter on semver.satisfies, the sort,
\* the last element
findLatestVersion(versionRange, versions) ==
    pop(sortVersions({v \in versions : satisfies(v, versionRange)}))

\* which way a request goes: the promise kept under its key, a version
\* on disk, the registry
route(c, key) ==
    IF c.draft = "part_001"
    THEN IF findLatestVersion(key[2], onDiskVersions(c, key[1])) # NoVersion THEN "local"
         ELSE IF c.hot[key] # NoPromise THEN "hot" ELSE "remote"
    ELSE IF c.hot[key] # NoPromise THEN "hot"
         ELSE IF findLatestVersion(key[2], onDiskVersions(c, key[1])) # NoVersion
         THEN "local" ELSE "remote"

\* the operations of a key that have not settled
pendingOps(os, key) ==
    {o \in 1..Len(os) : os[o].key = key /\ os[o].st \in {"info", "download"}}

\* an install request: the operation it waits for (0: none), the version
\* and the outcome it got, the operations of its key pending when it came
Req(key, op, v, got, pending) ==
    [key |-> key, op |-> op, v |-> v, got |-> got, pending |-> pending]

\* a request served by the promise kept under its key
hotRequest(c, os, key) ==
    IF c.hot[key].op = 0 THEN Req(key, 0, c.hot[key].v, "ok", pendingOps(os, key))
    ELSE Req(key, c.hot[key].op, NoVersion, "", pendingOps(os, key))

\* a request served by a version on disk
localRequest(c, os, key) ==
    Req(key, 0, findLatestVersion(key[2], onDiskVersions(c, key[1])), "ok",
        pendingOps(os, key))

\* the caches after a request served by a version on disk
localContext(c, key) ==
    IF c.draft = "part_003"
    THEN [c EXCEPT !.hot[key] =
              Resolved(findLatestVersion(key[2], onDiskVersions(c, key[1])))]
    ELSE c

\* the caches after a request that goes to the registry, op its operation
remoteContext(c, key, op) ==
    IF c.draft = "part_000" THEN getPackageInfo(c, key[1])
    ELSE [getPackageInfo(c, key[1]) EXCEPT !.hot[key] = PromiseOf(op)]

\* the caches of a run; disk is the store itself, the directories that
\* hold an extracted package
Context(draft, onDisk) ==
    [draft |-> draft, onDisk |-> onDisk, disk |-> onDisk,
     hot |-> [k \in FetchKeys |-> NoPromise],
     info |-> [n \in FetchNames |-> "none"],
     infoRequests |-> [n \in FetchNames |-> 0]]

InitFetch ==
    /\ CoreIdle
    /\ AbsorbIdle
    /\ BinIdle
    /\ RecursiveIdle
    /\ MatchIdle
    /\ CliIdle
    /\ RaceIdle
    /\ WaitIdle
    /\ ScanIdle
    /\ \E draft \in Drafts, onDisk \in {{}, {Key("a", V100)}} :
          ctx = Context(draft, onDisk)
    /\ ops = <<>>
    /\ reqs = <<>>

\* installPackage(nodeModulesDir, packageName, versionRange), up to its
\* first wait
Request ==
    \E key \in FetchKeys :
        /\ Len(reqs) < MaxRequests
        /\ \/ /\ route(ctx, key) = "hot"
              /\ reqs' = Append(reqs, hotRequest(ctx, ops, key))
              /\ UNCHANGED <<ctx, ops>>
           \/ /\ route(ctx, key) = "local"
              /\ reqs' = Append(reqs, localRequest(ctx, ops, key))
              /\ ctx' = localContext(ctx, key)
              /\ UNCHANGED ops
           \/ /\ route(ctx, key) = "remote"
              /\ reqs' = Append(reqs, Req(key, Len(ops) + 1, NoVersion, "",
                                          pendingOps(ops, key)))
              /\ ctx' = remoteContext(ctx, key, Len(ops) + 1)
              /\ ops' = Append(ops, [key |-> key, st |-> "info", v |-> NoVersion])
        /\ UNCHANGED <<coreVars, binVars, absorbVars, recursiveVars, cliVars, raceVars, waitVars, scanVars, matchVars>>

\* the registry answers, or fails to, a request for the info of a package
InfoArrives ==
    \E n \in FetchNames, reply \in {"ok", "failed"} :
        /\ ctx.info[n] = "pending"
        /\ ctx' = [ctx EXCEPT !.info[n] = reply]
        /\ UNCHANGED <<coreVars, binVars, absorbVars, recursiveVars, cliVars, raceVars, waitVars, scanVars, matchVars, ops, reqs>>

\* info['dist-tags'][versionRange] || versionRange
distTag(packageName, versionRange) ==
    IF versionRange.k = "latest" THEN Exact(MaxVersion(PublishedVersions(packageName)))
    ELSE versionRange

\* the exact version an operation finds in the info of its package
matched(key) ==
    findLatestVersion(distTag(key[1], key[2]), PublishedVersions(key[1]))

\* the then() on the info of the package: the exact version is matched,
\* put in the index of the versions on disk, and its download starts
Matched(o) ==
    /\ o \in 1..Len(ops)
    /\ ops[o].st = "info"
    /\ ctx.info[ops[o].key[1]] = "ok"
    /\ ops' = [ops EXCEPT ![o] =
                  IF matched(ops[o].key) = NoVersion THEN [@ EXCEPT !.st = "rejected"]
                  ELSE [@ EXCEPT !.st = "download", !.v = matched(ops[o].key)]]
    /\ ctx' = IF matched(ops[o].key) = NoVersion \/ ctx.draft = "part_000" THEN ctx
              ELSE [ctx EXCEPT !.onDisk = @ \cup {Key(ops[o].key[1], matched(ops[o].key))}]
    /\ UNCHANGED <<coreVars, binVars, absorbVars, recursiveVars, cliVars, raceVars, waitVars, scanVars, matchVars, reqs>>

\* the info of the package could not be fetched
InfoFailed(o) ==
    /\ o \in 1..Len(ops)
    /\ ops[o].st = "info"
    /\ ctx.info[ops[o].key[1]] = "failed"
    /\ ops' = [ops EXCEPT ![o].st = "rejected"]
    /\ UNCHANGED <<coreVars, binVars, absorbVars, recursiveVars, cliVars, raceVars, waitVars, scanVars, matchVars, ctx, reqs>>

\* the tarball has been extracted, or the fetch or the extraction failed
Downloaded(o) ==
    /\ o \in 1..Len(ops)
    /\ ops[o].st = "download"
    /\ \/ /\ ops' = [ops EXCEPT ![o].st = "resolved"]
          /\ ctx' = [ctx EXCEPT !.disk = @ \cup {Key(ops[o].key[1], ops[o].v)}]
       \/ /\ ops' = [ops EXCEPT ![o].st = "rejected"]
          /\ UNCHANGED ctx
    /\ UNCHANGED <<coreVars, binVars, absorbVars, recursiveVars, cliVars, raceVars, waitVars, scanVars, matchVars, reqs>>

\* the then()/catch() of a request on the promise it waits for
Settled(r) ==
    /\ r \in 1..Len(reqs)
    /\ reqs[r].got = ""
    /\ ops[reqs[r].op].st \in {"resolved", "rejected"}
    /\ reqs' = [reqs EXCEPT ![r].got = IF ops[reqs[r].op].st = "resolved" THEN "ok" ELSE "err",
                            ![r].v = ops[reqs[r].op].v]
    /\ UNCHANGED <<coreVars, binVars, absorbVars, recursiveVars, cliVars, raceVars, waitVars, scanVars, matchVars, ctx, ops>>

NextFetch ==
    \/ Request
    \/ InfoArrives
    \/ \E o \in 1..MaxRequests : Matched(o)
    \/ \E o \in 1..MaxRequests : InfoFailed(o)
    \/ \E o \in 1..MaxRequests : Downloaded(o)
    \/ \E r \in 1..MaxRequests : Settled(r)

SpecFetch == InitFetch /\ [][NextFetch]_vars

\* ------------------------------------------------------------------------
\* A WaitGroup and the sub-operations of one install
\* ------------------------------------------------------------------------

\* the most sub-operations of an install
MaxOps == 3

\* no error: the null a callback is called with
NoError == <<>>

\* new WaitGroup(); calls are the arguments its callbacks were called with
WaitGroup == [pending |-> 0, errors |-> <<>>, callbacks |-> 0, hooked |-> FALSE,
              calls |-> <<>>]

\* this.errors.length === 0 ? null : this.errors
errorsOrNull(w) == IF w.errors = <<>> THEN <<NoError>> ELSE w.errors

called(w) == [w EXCEPT !.calls = @ \o [i \in 1..w.callbacks |-> errorsOrNull(w)],
                       !.callbacks = 0]

checkPending(w) == IF w.pending = 0 THEN called(w) ELSE w

pushed(w, err) == [w EXCEPT !.pending = @ - 1,
                            !.errors = IF err = NoError THEN @ ELSE Append(@, err)]

\* the function addCallback() returns; addResult
addResult(w, err) == checkPending(pushed(w, err))

addPending(w) == [w EXCEPT !.pending = @ + 1]

hookCallback(w) ==
    IF w.pending = 0
    THEN [w EXCEPT !.hooked = TRUE, !.calls = Append(@, errorsOrNull(w))]
    ELSE [w EXCEPT !.hooked = TRUE, !.callbacks = @ + 1]

\* next(cb, fn) when fn throws: the catch clause calls cb with the err of
\* the else branch it is in
nextCaught(err, error) == err

InitWait ==
    /\ CoreIdle
    /\ AbsorbIdle
    /\ BinIdle
    /\ RecursiveIdle
    /\ MatchIdle
    /\ CliIdle
    /\ RaceIdle
    /\ FetchIdle
    /\ ScanIdle
    /\ wg = WaitGroup
    /\ subs = <<>>

\* a sub-operation is started with waitGroup.addCallback() as its callback
AddCallback ==
    /\ ~wg.hooked
    /\ Len(subs) < MaxOps
    /\ wg' = addPending(wg)
    /\ subs' = Append(subs, "pending")
    /\ UNCHANGED <<coreVars, binVars, absorbVars, recursiveVars, cliVars, raceVars, fetchVars, scanVars, matchVars>>

\* waitGroup.hookCallback(cb), after the sub-operations have been started
HookCallback ==
    /\ ~wg.hooked
    /\ subs # <<>>
    /\ wg' = hookCallback(wg)
    /\ UNCHANGED <<coreVars, binVars, absorbVars, recursiveVars, cliVars, raceVars, fetchVars, scanVars, matchVars, subs>>

\* the sub-operation i ends well
Succeeded(i) ==
    /\ i \in 1..Len(subs)
    /\ subs[i] = "pending"
    /\ subs' = [subs EXCEPT ![i] = "ok"]
    /\ wg' = addResult(wg, NoError)
    /\ UNCHANGED <<coreVars, binVars, absorbVars, recursiveVars, cliVars, raceVars, fetchVars, scanVars, matchVars>>

\* the sub-operation i ends with an error given to its callback
Failed(i) ==
    /\ i \in 1..Len(subs)
    /\ subs[i] = "pending"
    /\ subs' = [subs EXCEPT ![i] = "err"]
    /\ wg' = addResult(wg, <<i>>)
    /\ UNCHANGED <<coreVars, binVars, absorbVars, recursiveVars, cliVars, raceVars, fetchVars, scanVars, matchVars>>

\* a step of the sub-operation i, run by next(cb, fn), throws
Threw(i) ==
    /\ i \in 1..Len(subs)
    /\ subs[i] = "pending"
    /\ subs' = [subs EXCEPT ![i] = "threw"]
    /\ wg' = addResult(wg, nextCaught(NoError, <<i>>))
    /\ UNCHANGED <<coreVars, binVars, absorbVars, recursiveVars, cliVars, raceVars, fetchVars, scanVars, matchVars>>

NextWait ==
    \/ AddCallback
    \/ HookCallback
    \/ \E i \in 1..MaxOps : Succeeded(i)
    \/ \E i \in 1..MaxOps : Failed(i)
    \/ \E i \in 1..MaxOps : Threw(i)

SpecWait == InitWait /\ [][NextWait]_vars

\* ------------------------------------------------------------------------
\* A WaitGroup whose operations start other operations when they complete
\* ------------------------------------------------------------------------

RECURSIVE addPendings(_, _)
\* n calls of waitGroup.addPending() or waitGroup.addCallback()
addPendings(w, n) == IF n = 0 THEN w ELSE addPendings(addPending(w), n - 1)

\* reports before the operations of the callback are registered
completedReportsFirst(w, n, err) == addPendings(addResult(w, err), n)

\* the completion of readdir, mkdir, mv, readPackageFile: `if (!err) cb()`,
\* where cb registers n operations, then waitGroup.addResult(err)
completed(w, n, err) == addResult(addPendings(w, n), err)

\* an operation of the WaitGroup: the operation whose completion registered
\* it (0 for the function that made the WaitGroup), and whether the
\* callback was hooked by then
Op(parent, hooked) == [state |-> "pending", parent |-> parent, hooked |-> hooked]

InitHook ==
    /\ CoreIdle
    /\ AbsorbIdle
    /\ BinIdle
    /\ RecursiveIdle
    /\ MatchIdle
    /\ CliIdle
    /\ RaceIdle
    /\ FetchIdle
    /\ ScanIdle
    /\ wg = WaitGroup
    /\ subs = <<>>

\* an operation is registered by the function that made the WaitGroup,
\* before it hooks its callback
RegisterOp ==
    /\ ~wg.hooked
    /\ Len(subs) < MaxOps
    /\ wg' = addPending(wg)
    /\ subs' = Append(subs, Op(0, FALSE))
    /\ UNCHANGED <<coreVars, binVars, absorbVars, recursiveVars, cliVars, raceVars,
                   fetchVars, scanVars, matchVars>>

\* waitGroup.hookCallback(cb), last in the function that made the WaitGroup
HookLast ==
    /\ ~wg.hooked
    /\ wg' = hookCallback(wg)
    /\ UNCHANGED <<coreVars, binVars, absorbVars, recursiveVars, cliVars, raceVars,
                   fetchVars, scanVars, matchVars, subs>>

\* the operation i completes without error, and its callback registers n
\* operations
CompleteOp(i, n) ==
    /\ i \in 1..Len(subs)
    /\ subs[i].state = "pending"
    /\ Len(subs) + n <= MaxOps
    /\ wg' = completed(wg, n, NoError)
    /\ subs' = [subs EXCEPT ![i].state = "ok"] \o [k \in 1..n |-> Op(i, wg.hooked)]
    /\ UNCHANGED <<coreVars, binVars, absorbVars, recursiveVars, cliVars, raceVars,
                   fetchVars, scanVars, matchVars>>

\* the operation i completes with an error: its callback is not called
FailOp(i) ==
    /\ i \in 1..Len(subs)
    /\ subs[i].state = "pending"
    /\ wg' = completed(wg, 0, <<i>>)
    /\ subs' = [subs EXCEPT ![i].state = "err"]
    /\ UNCHANGED <<coreVars, binVars, absorbVars, recursiveVars, cliVars, raceVars,
                   fetchVars, scanVars, matchVars>>

NextHook ==
    \/ RegisterOp
    \/ HookLast
    \/ \E i \in 1..MaxOps, n \in 0..MaxOps : CompleteOp(i, n)
    \/ \E i \in 1..MaxOps : FailOp(i)

SpecHook == InitHook /\ [][NextHook]_vars

\* ------------------------------------------------------------------------
\* The store by the names of its directories: what collectPackage writes
\* and what scanStorePackages reads
\* ------------------------------------------------------------------------

RECURSIVE split(_, _)
\* String.prototype.split with a separator of one character
split(s, sep) ==
    IF indexOf(s, sep) = 0 THEN <<s>>
    ELSE <<SubSeq(s, 1, indexOf(s, sep) - 1)>> \o split(slice(s, indexOf(s, sep)), sep)

\* the element of a destructured array that is not there
Undefined == <<"undefined">>

element(array, i) == IF i <= Len(array) THEN array[i] ELSE Undefined

\* join(storeDir, `${name}@${version}`), as the path below storeDir
storePackageDirOf(name, version) == split(name \o Str("@") \o version, Str("/"))

\* dirname(storePackageDir)
dirnameOf(path) == SubSeq(path, 1, Len(path) - 1)

\* readdirSync(dir)
readdirSync(paths, dir) ==
    {path[Len(dir) + 1] :
        path \in {q \in paths : Len(q) > Len(dir) /\ SubSeq(q, 1, Len(dir)) = dir}}

\* [name, version] = dirname.split('@')
nameAndVersion(dirname) ==
    <<element(split(dirname, Str("@")), 1), element(split(dirname, Str("@")), 2)>>

orgPackageNameBare(orgName, entry) == entry

\* name = `${orgName}/${name}`
orgPackageName(orgName, entry) == <<orgName \o Str("/") \o entry[1], entry[2]>>

scanOrgDir(paths, orgName) ==
    {orgPackageName(orgName, nameAndVersion(dirname)) :
        dirname \in readdirSync(paths, <<orgName>>)}

\* scanStorePackages(storeDir) on the names readdirSync gives
scanStoreDir(paths) ==
    {nameAndVersion(dirname) :
        dirname \in {d \in readdirSync(paths, <<>>) : d[1] # "@"}}
    \cup UNION {scanOrgDir(paths, orgName) :
                    orgName \in {d \in readdirSync(paths, <<>>) : d[1] = "@"}}

\* mkdirSync(parentDir, {recursive: true}) for a scoped name, then mv
movedToStore(paths, name, version) ==
    paths \cup {storePackageDirOf(name, version)}
          \cup (IF includes(name, Str("/"))
                THEN {dirnameOf(storePackageDirOf(name, version))} ELSE {})

\* the packages a scratch tree may hold: unscoped and scoped
ScanPackages ==
    {<<Str("a"), Str("1.0.0")>>, <<Str("a"), Str("1.1.0")>>, <<Str("b"), Str("1.0.0")>>,
     <<Str("@o/a"), Str("1.0.0")>>, <<Str("@o/b"), Str("1.1.0")>>}

RECURSIVE StoreOf(_)
\* the store after the packages of a set have been moved to it
StoreOf(packages) ==
    IF packages = {} THEN {}
    ELSE LET p == CHOOSE p \in packages : TRUE
         IN movedToStore(StoreOf(packages \ {p}), p[1], p[2])

InitScan ==
    /\ CoreIdle
    /\ AbsorbIdle
    /\ BinIdle
    /\ RecursiveIdle
    /\ MatchIdle
    /\ CliIdle
    /\ RaceIdle
    /\ FetchIdle
    /\ WaitIdle
    /\ tree \in {StoreOf(packages) : packages \in SUBSET ScanPackages}
    /\ index = {}
    /\ scan = [phase |-> "start", absorbed |-> {}, moved |-> {}]

\* main: storePackageVersions = scanStorePackages(storeDir)
ScanStore ==
    /\ scan.phase = "start"
    /\ index' = scanStoreDir(tree)
    /\ scan' = [scan EXCEPT !.phase = "collect"]
    /\ UNCHANGED <<coreVars, binVars, absorbVars, recursiveVars, cliVars, raceVars, fetchVars, waitVars, matchVars, tree>>

\* collectPackage(packageDir) for a package of the scratch tree
CollectPackage ==
    \E p \in ScanPackages \ scan.absorbed :
        /\ scan.phase = "collect"
        /\ index' = index \cup {p}
        /\ tree' = IF storePackageDirOf(p[1], p[2]) \in tree THEN tree
                   ELSE movedToStore(tree, p[1], p[2])
        /\ scan' = [scan EXCEPT !.absorbed = @ \cup {p},
                                !.moved = IF storePackageDirOf(p[1], p[2]) \in tree
                                          THEN @ ELSE @ \cup {p}]
        /\ UNCHANGED <<coreVars, binVars, absorbVars, recursiveVars, cliVars, raceVars, fetchVars, waitVars, matchVars>>

\* the install ends without an error
ScanDone ==
    /\ scan.phase = "collect"
    /\ scan' = [scan EXCEPT !.phase = "done"]
    /\ UNCHANGED <<coreVars, binVars, absorbVars, recursiveVars, cliVars, raceVars, fetchVars, waitVars, matchVars, tree, index>>

NextScan == ScanStore \/ CollectPackage \/ ScanDone

SpecScan == InitScan /\ [][NextScan]_vars

\* ------------------------------------------------------------------------
\* The scan of a store that holds directories that name no package
\* ------------------------------------------------------------------------

\* directory names without `@`, with an empty version part and with an
\* empty name part
StrayDirs == {Str("x"), Str("a") \o Str("@"), Str("@") \o Str("1.0.0")}

\* the paths of the stray directories; one that is not empty holds a file x
StrayPaths(stray, empty) ==
    {<<d>> : d \in stray} \cup {<<d, Str("x")>> : d \in stray \ empty}

\* [packageName, version] of the `switch (parts.length)` of populateContext
contextEntry(parts) ==
    IF Len(parts) = 2 THEN <<parts[1], parts[2]>>
    ELSE <<parts[1] \o Str("@") \o parts[2], parts[3]>>

\* populateContext of the older core.ts: a directory without files and a
\* name that does not split in two or three parts are skipped
populateContext(paths, empty) ==
    {contextEntry(split(dirname, Str("@"))) :
        dirname \in {d \in readdirSync(paths, <<>>) :
                        d \notin empty /\ Len(split(d, Str("@"))) \in {2, 3}}}

InitStray ==
    /\ CoreIdle
    /\ AbsorbIdle
    /\ BinIdle
    /\ RecursiveIdle
    /\ MatchIdle
    /\ CliIdle
    /\ RaceIdle
    /\ FetchIdle
    /\ WaitIdle
    /\ \E draft \in {"src/core.ts", "core.ts"}, packages \in SUBSET ScanPackages,
          stray \in SUBSET StrayDirs :
          \E empty \in SUBSET stray :
             /\ draft = "core.ts" => \A q \in packages : q[1][1] # "@"
             /\ tree = StoreOf(packages) \cup StrayPaths(stray, empty)
             /\ scan = [phase |-> "start", draft |-> draft, packages |-> packages,
                        empty |-> empty, absorbed |-> {}, moved |-> {}]
    /\ index = {}

\* main: storePackageVersions = scanStorePackages(storeDir)
ScanStrayStore ==
    /\ scan # <<>> /\ scan.phase = "start" /\ scan.draft = "src/core.ts"
    /\ index' = scanStoreDir(tree)
    /\ scan' = [scan EXCEPT !.phase = "done"]
    /\ UNCHANGED <<coreVars, binVars, absorbVars, recursiveVars, cliVars, raceVars,
                   fetchVars, waitVars, matchVars, tree>>

\* populateContext(context) of the older core.ts
PopulateContext ==
    /\ scan # <<>> /\ scan.phase = "start" /\ scan.draft = "core.ts"
    /\ index' = populateContext(tree, scan.empty)
    /\ scan' = [scan EXCEPT !.phase = "done"]
    /\ UNCHANGED <<coreVars, binVars, absorbVars, recursiveVars, cliVars, raceVars,
                   fetchVars, waitVars, matchVars, tree>>

NextStray == ScanStrayStore \/ PopulateContext

SpecStray == InitStray /\ [][NextStray]_vars

\* ------------------------------------------------------------------------
\* findLatestMatch on its own
\* ------------------------------------------------------------------------

\* the candidate versions of a query
MatchVersions == {V100, <<1, 0, 1>>, V110, V200}

\* the ranges of a query
MatchRanges ==
    {Star, Latest}
    \cup {Exact(v) : v \in MatchVersions}
    \cup {Caret(v) : v \in MatchVersions}
    \cup {Tilde(v) : v \in MatchVersions}

InitMatch ==
    /\ CoreIdle
    /\ AbsorbIdle
    /\ BinIdle
    /\ RecursiveIdle
    /\ CliIdle
    /\ RaceIdle
    /\ FetchIdle
    /\ WaitIdle
    /\ ScanIdle
    /\ query \in [versionRange : MatchRanges, exactVersions : SUBSET MatchVersions]
    /\ answer = <<>>

\* findLatestMatch(versionRange, exactVersions), of the core and of the
\* first draft
Match ==
    /\ answer = <<>>
    /\ answer' = [core |-> findLatestMatch(query.versionRange, query.exactVersions),
                  draft |-> findLatestVersion(query.versionRange, query.exactVersions)]
    /\ UNCHANGED <<coreVars, binVars, absorbVars, recursiveVars, cliVars, raceVars, fetchVars, waitVars, scanVars, query>>

NextMatch == Match

SpecMatch == InitMatch /\ [][NextMatch]_vars

\* ------------------------------------------------------------------------
\* Version filters: getVersionFilter(versionRange)(version)
\* ------------------------------------------------------------------------

\* the numbers a version or a range is written with
FilterParts == {0, 1, 10}

FilterVersions == {<<a, b, c>> : a \in FilterParts, b \in FilterParts, c \in FilterParts}

\* a range as it is written: its form and the numbers in it
RangeForm(form, a, b) == [form |-> form, a |-> a, b |-> b]

FilterRanges ==
    {RangeForm(form, a, NoVersion) : form \in {"tilde3", "caret3"}, a \in FilterVersions}
        \cup {RangeForm("tilde2", <<a, b, 0>>, NoVersion) : a \in FilterParts, b \in FilterParts}
        \cup {RangeForm(form, <<a, 0, 0>>, NoVersion) :
                    form \in {"caret1", "majorStar", "major"}, a \in FilterParts}
        \cup {RangeForm("star", NoVersion, NoVersion)}
        \cup {RangeForm("between", <<a, b, 0>>, <<c, 0, 0>>) :
                    a \in FilterParts, b \in FilterParts, c \in FilterParts}

digit(d) ==
    CASE d = 0 -> "0" [] d = 1 -> "1" [] d = 2 -> "2" [] d = 3 -> "3" [] d = 4 -> "4"
      [] d = 5 -> "5" [] d = 6 -> "6" [] d = 7 -> "7" [] d = 8 -> "8" [] d = 9 -> "9"

\* String(n)
numberText(n) == IF n < 10 THEN <<digit(n)>> ELSE <<digit(n \div 10), digit(n % 10)>>

versionText(v) ==
    numberText(v[1]) \o Str(".") \o numberText(v[2]) \o Str(".") \o numberText(v[3])

\* the string a range is written as: ~M.m.p, ~M.m, ^M.m.p, ^M, *, M.*, M
\* and >=a <b
rangeText(r) ==
    CASE r.form = "tilde3" -> Str("~") \o versionText(r.a)
      [] r.form = "tilde2" -> Str("~") \o numberText(r.a[1]) \o Str(".") \o numberText(r.a[2])
      [] r.form = "caret3" -> Str("^") \o versionText(r.a)
      [] r.form = "caret1" -> Str("^") \o numberText(r.a[1])
      [] r.form = "star" -> Str("*")
      [] r.form = "majorStar" -> numberText(r.a[1]) \o Str(".*")
      [] r.form = "major" -> numberText(r.a[1])
      [] r.form = "between" ->
            Str(">=") \o versionText(r.a) \o Str(" <") \o versionText(r.b)

\* a regular expression that does not match
NoMatch == <<"null">>

\* the group of /(.*?\.)/ : the text up to the first dot, the dot included
upToDot(s) == IF indexOf(s, Str(".")) = 0 THEN NoMatch ELSE SubSeq(s, 1, indexOf(s, Str(".")))

\* match[1] of majorVersionRegex = /\^(.*?\.)/, on a range that starts with ^
majorVersionMatch(versionRange) == upToDot(slice(versionRange, 1))

\* match[1] of minorVersionRegex = /\~(.*?\..*?\.)/, on a range that starts
\* with ~ : the text up to the second dot
minorVersionMatch(versionRange) ==
    IF upToDot(slice(versionRange, 1)) = NoMatch THEN NoMatch
    ELSE IF upToDot(slice(versionRange, 1 + Len(upToDot(slice(versionRange, 1))))) = NoMatch
         THEN NoMatch
    ELSE upToDot(slice(versionRange, 1))
            \o upToDot(slice(versionRange, 1 + Len(upToDot(slice(versionRange, 1)))))

\* match[1] of wildCastVersionRegex = /(.*?)\*/ : the text before the first *
wildCastVersionMatch(versionPattern) ==
    IF indexOf(versionPattern, Str("*")) = 0 THEN NoMatch
    ELSE SubSeq(versionPattern, 1, indexOf(versionPattern, Str("*")) - 1)

\* String(+part) == part
isNumber(part) == \E n \in 0..99 : part = numberText(n)

isSemverVersion(version) ==
    /\ Len(split(version, Str("."))) = 3
    /\ \A i \in 1..3 : isNumber(split(version, Str("."))[i])

\* v => v.startsWith(prefix), or the exception of a range that did not match
prefixFilter(prefix, version) ==
    IF prefix = NoMatch THEN "throw"
    ELSE IF startsWith(version, prefix) THEN "true" ELSE "false"

\* the pattern the default branch matches: `${versionRange}.*` for a range
\* of fewer than three parts
versionPattern(versionRange) ==
    IF Len(split(versionRange, Str("."))) < 3 THEN versionRange \o Str(".*") ELSE versionRange

\* getVersionFilter(versionRange)(version) of the hand-written filter
getVersionFilter(versionRange, version) ==
    IF versionRange = Str("*") THEN "true"
    ELSE IF isSemverVersion(versionRange)
         THEN (IF version = versionRange THEN "true" ELSE "false")
    ELSE IF versionRange[1] = "^" THEN prefixFilter(majorVersionMatch(versionRange), version)
    ELSE IF versionRange[1] = "~" THEN prefixFilter(minorVersionMatch(versionRange), version)
    ELSE prefixFilter(wildCastVersionMatch(versionPattern(versionRange)), version)

\* semver.satisfies(version, versionRange), for the forms of FilterRanges
semverSatisfies(version, r) ==
    CASE r.form = "tilde3" -> satisfies(version, Tilde(r.a))
      [] r.form = "tilde2" -> satisfies(version, Tilde(r.a))
      [] r.form = "caret3" -> satisfies(version, Caret(r.a))
      [] r.form = "caret1" ->
            VersionLeq(r.a, version) /\ VersionLess(version, <<r.a[1] + 1, 0, 0>>)
      [] r.form = "star" -> TRUE
      [] r.form = "majorStar" ->
            VersionLeq(r.a, version) /\ VersionLess(version, <<r.a[1] + 1, 0, 0>>)
      [] r.form = "major" ->
            VersionLeq(r.a, version) /\ VersionLess(version, <<r.a[1] + 1, 0, 0>>)
      [] r.form = "between" -> VersionLeq(r.a, version) /\ VersionLess(version, r.b)

\* getVersionFilter(versionRange)(version) of the filter built on semver
getVersionFilterSemver(version, r) == IF semverSatisfies(version, r) THEN "true" ELSE "false"

InitFilter ==
    /\ CoreIdle
    /\ AbsorbIdle
    /\ BinIdle
    /\ RecursiveIdle
    /\ CliIdle
    /\ RaceIdle
    /\ FetchIdle
    /\ WaitIdle
    /\ ScanIdle
    /\ query \in [versionRange : FilterRanges, version : FilterVersions]
    /\ answer = <<>>

\* one call of the filter of a range on a version, by both filters
Filter ==
    /\ answer = <<>>
    /\ answer' = [handWritten |-> getVersionFilter(rangeText(query.versionRange),
                                                   versionText(query.version)),
                  semver |-> getVersionFilterSemver(query.version, query.versionRange)]
    /\ UNCHANGED <<coreVars, binVars, absorbVars, recursiveVars, cliVars, raceVars, fetchVars, waitVars, scanVars, query>>

NextFilter == Filter

SpecFilter == InitFilter /\ [][NextFilter]_vars

\* ------------------------------------------------------------------------
\* Executables: linkBinFile and setBinPermission
\* ------------------------------------------------------------------------

\* the files executables are declared with, and the names of the shims
BinFiles == {"cli.js", "run.js"}

BinNames == {"a", "b"}

\* 0o644, 0o700, 0o755, 0o775
Modes == {420, 448, 493, 509}

\* the first byte of a file: of an interpreter directive, of code, or the
\* zero the buffer keeps when the file is empty
FirstBytes == {"#", "c", "nul"}

\* accessSync(file, fs.constants.X_OK), for the owner of the file
accessSync(mode) == (mode \div 64) % 2 = 1

\* setBinPermission(file): the files after it
setBinPermission(fs, cache, file) ==
    IF file \in cache THEN fs
    ELSE IF accessSync(fs[file].mode) THEN fs
    ELSE [fs EXCEPT ![file] = [first |-> "#", mode |-> 493]]

\* makeSymbolicLink(src, dest) in binDir: EEXIST leaves the entry there
symlinkSync(dir, src, name) ==
    IF \E entry \in dir : entry.name = name THEN dir
    ELSE dir \cup {[name |-> name, src |-> src]}

InitBin ==
    /\ CoreIdle
    /\ AbsorbIdle
    /\ RecursiveIdle
    /\ CliIdle
    /\ RaceIdle
    /\ FetchIdle
    /\ WaitIdle
    /\ ScanIdle
    /\ MatchIdle
    /\ files \in [BinFiles -> [first : FirstBytes, mode : Modes]]
    /\ setBinPermissionCache = {}
    /\ binDir = {}

\* linkBinFile(binDir, packageDir, name, filename)
LinkBinFile(name, filename) ==
    /\ files # <<>>
    /\ files' = setBinPermission(files, setBinPermissionCache, filename)
    /\ setBinPermissionCache' = setBinPermissionCache \cup {filename}
    /\ binDir' = symlinkSync(binDir, filename, name)
    /\ UNCHANGED <<coreVars, absorbVars, recursiveVars, cliVars, raceVars, fetchVars, waitVars, scanVars,
                   matchVars>>

NextBin == \E name \in BinNames, filename \in BinFiles : LinkBinFile(name, filename)

SpecBin == InitBin /\ [][NextBin]_vars

\* ------------------------------------------------------------------------
\* Recursive mode: scanPackageRecursively
\* ------------------------------------------------------------------------

\* the directories by their canonical paths; the first is options.cwd
WalkDirs == {1, 2, 3}

Cwd == 1

\* what statSync finds at an entry: nothing, a regular file, a symlink to
\* nowhere, or a directory (as such or behind a symlink)
Stat(kind, d) == [kind |-> kind, dir |-> d]

NoEntry == Stat("absent", 0)

File == Stat("file", 0)

Nowhere == Stat("dangling", 0)

Dir(d) == Stat("dir", d)

EntryNames == <<Str(".git"), Str("node_modules"), Str("package.json"), Str("x"), Str("y")>>

\* the directories of the model: those with a package.json, where the
\* entries x and y lead, and which entry to be skipped is there
WalkTree(manifests, x, y, skip) ==
    [d \in WalkDirs |->
        [name \in {EntryNames[i] : i \in 1..Len(EntryNames)} |->
            CASE name = Str("package.json") -> IF d \in manifests THEN File ELSE NoEntry
              [] name = Str("x") -> x[d]
              [] name = Str("y") -> IF d = Cwd THEN y ELSE NoEntry
              [] name = Str("node_modules") ->
                    IF skip[d] = "node_modules" THEN Dir(3) ELSE NoEntry
              [] name = Str(".git") -> IF skip[d] = ".git" THEN Dir(3) ELSE NoEntry]]

\* stat.isDirectory()
isDirectory(stat) == stat.kind = "dir"

\* the test of the loop that skips an entry, without the node_modules case
skippedHidden(filename) == filename[1] = "."

\* filename[0] === '.' || filename === 'node_modules'
skipped(filename) == filename[1] = "." \/ filename = Str("node_modules")

\* readdirSync(dir): the entries that are there
readdir(disk, d) == SelectSeq(EntryNames, LAMBDA name : disk[d][name] # NoEntry)

\* the call scanPackageRecursively(context, dir, visited) that is running
Frame(d, rest) == [dir |-> d, rest |-> rest]

\* scanPackageRecursively up to its loop: realpathSync, the visited test
scanPackageRecursively(w, d) ==
    IF d \in w.visited THEN w
    ELSE [w EXCEPT !.visited = @ \cup {d},
                   !.stack = <<Frame(d, readdir(w.tree, d))>> \o @]

\* continue: the loop goes to the next entry
continue(w) == [w EXCEPT !.stack[1].rest = Tail(@)]

InitWalk ==
    /\ CoreIdle
    /\ AbsorbIdle
    /\ BinIdle
    /\ CliIdle
    /\ RaceIdle
    /\ FetchIdle
    /\ WaitIdle
    /\ ScanIdle
    /\ MatchIdle
    /\ rec = <<>>
    /\ \E manifests \in SUBSET WalkDirs,
          x \in [WalkDirs -> {NoEntry, Nowhere} \cup {Dir(d) : d \in WalkDirs}],
          y \in {NoEntry, File, Dir(2), Dir(3)},
          skip \in [WalkDirs -> {"none", "node_modules", ".git"}] :
            walk = [phase |-> "start", tree |-> WalkTree(manifests, x, y, skip),
                    visited |-> {}, stack |-> <<>>, installs |-> <<>>]

Walking == walk # <<>> /\ walk.phase = "scan" /\ walk.stack # <<>>

Entry == Head(walk.stack[1].rest)

StatSync == walk.tree[walk.stack[1].dir][Entry]

\* main: initPackageFile(options.cwd), then the scan starts at options.cwd
WalkStart ==
    /\ walk # <<>>
    /\ walk.phase = "start"
    /\ walk' = scanPackageRecursively(
                    [walk EXCEPT !.phase = "scan",
                                 !.tree[Cwd][Str("package.json")] = File], Cwd)
    /\ UNCHANGED <<coreVars, binVars, absorbVars, cliVars, raceVars, fetchVars, waitVars, scanVars,
                   matchVars, rec>>

\* a hidden entry or node_modules
WalkSkip ==
    /\ Walking
    /\ walk.stack[1].rest # <<>>
    /\ skipped(Entry)
    /\ walk' = continue(walk)
    /\ UNCHANGED <<coreVars, binVars, absorbVars, cliVars, raceVars, fetchVars, waitVars, scanVars,
                   matchVars, rec>>

\* statSync(file) of a symlink to nowhere throws
WalkThrows ==
    /\ Walking
    /\ walk.stack[1].rest # <<>>
    /\ ~skipped(Entry)
    /\ StatSync = Nowhere
    /\ walk' = [walk EXCEPT !.phase = "failed"]
    /\ UNCHANGED <<coreVars, binVars, absorbVars, cliVars, raceVars, fetchVars, waitVars, scanVars,
                   matchVars, rec>>

\* package.json: installPackages(context, dir), which returns or throws
WalkInstall(ok) ==
    /\ Walking
    /\ walk.stack[1].rest # <<>>
    /\ ~skipped(Entry)
    /\ Entry = Str("package.json") /\ StatSync = File
    /\ walk' = IF ok THEN continue([walk EXCEPT !.installs = Append(@, walk.stack[1].dir)])
                ELSE [walk EXCEPT !.installs = Append(@, walk.stack[1].dir),
                                  !.phase = "failed"]
    /\ UNCHANGED <<coreVars, binVars, absorbVars, cliVars, raceVars, fetchVars, waitVars, scanVars,
                   matchVars, rec>>

\* a directory: scanPackageRecursively(context, file, visited)
WalkDescend ==
    /\ Walking
    /\ walk.stack[1].rest # <<>>
    /\ ~skipped(Entry)
    /\ isDirectory(StatSync)
    /\ walk' = scanPackageRecursively(continue(walk), StatSync.dir)
    /\ UNCHANGED <<coreVars, binVars, absorbVars, cliVars, raceVars, fetchVars, waitVars, scanVars,
                   matchVars, rec>>

\* any other file
WalkOther ==
    /\ Walking
    /\ walk.stack[1].rest # <<>>
    /\ ~skipped(Entry)
    /\ Entry # Str("package.json")
    /\ StatSync = File
    /\ walk' = continue(walk)
    /\ UNCHANGED <<coreVars, binVars, absorbVars, cliVars, raceVars, fetchVars, waitVars, scanVars,
                   matchVars, rec>>

\* the loop of a directory is over: the call returns, the outermost to main
WalkReturn ==
    /\ Walking
    /\ walk.stack[1].rest = <<>>
    /\ walk' = [walk EXCEPT !.stack = Tail(@),
                            !.phase = IF Len(walk.stack) = 1 THEN "done" ELSE @]
    /\ UNCHANGED <<coreVars, binVars, absorbVars, cliVars, raceVars, fetchVars, waitVars, scanVars,
                   matchVars, rec>>

NextWalk ==
    \/ WalkStart
    \/ WalkSkip
    \/ WalkThrows
    \/ \E ok \in BOOLEAN : WalkInstall(ok)
    \/ WalkDescend
    \/ WalkOther
    \/ WalkReturn

SpecWalk == InitWalk /\ [][NextWalk]_vars

\* ------------------------------------------------------------------------
\* Recursive mode: two projects installed in one run
\* ------------------------------------------------------------------------

\* is the path below a project's node_modules
inProject(path) == path[1] \in {"proj", "tmp", "real"}

\* the process at the next installPackages(context, dir) of the scan, with
\* a context of its own for the project
nextProjectNewContext(S, json) ==
    Process([store |-> S.store, links |-> {l \in S.links : ~inProject(l.nm)},
             binLinks |-> {b \in S.binLinks : ~inProject(b.nm)},
             nmDirs |-> S.nmDirs, real |-> <<>>,
             tmp |-> [exists |-> FALSE, json |-> <<>>, nm |-> <<>>],
             manifest |-> json, manifestExists |-> TRUE, layout |-> S.layout])

\* the process at the next installPackages(context, dir) of the scan: the
\* directory of the next project, the variables of installPackages as
\* they start, and the context that main() made once
nextProject(S, json) ==
    [nextProjectNewContext(S, json) EXCEPT
        !.storePackageVersions = S.storePackageVersions,
        !.collectedNodeModules = {path \in S.collectedNodeModules : ~inProject(path)},
        !.linkedDepPackageDirs = {path \in S.linkedDepPackageDirs : ~inProject(path)}]

\* options of `slnpm -r`
RecursiveOptions(dev) == Options(dev, <<>>, <<>>, <<>>, FALSE)

InitRecursive ==
    /\ CoreIdle
    /\ AbsorbIdle
    /\ BinIdle
    /\ CliIdle
    /\ RaceIdle
    /\ FetchIdle
    /\ WaitIdle
    /\ ScanIdle
    /\ MatchIdle
    /\ walk = <<>>
    /\ \E disk \in [store : Stores, links : {{}}, binLinks : {{}}, nmDirs : {{}},
                     real : {<<>>}, tmp : {[exists |-> FALSE, json |-> <<>>, nm |-> <<>>]},
                     manifest : Manifests, manifestExists : {TRUE},
                     layout : {"hoisted", "nested"}],
          json \in Manifests, dev \in BOOLEAN :
            rec = [phase |-> "start", dev |-> dev, next |-> json,
                   first |-> Process(disk), second |-> Process(disk)]

\* main with options.recursive: the scan reaches the package.json of the
\* start directory
InstallFirst ==
    /\ rec # <<>>
    /\ rec.phase = "start"
    /\ rec' = [rec EXCEPT !.phase = "first",
                          !.first = installPackages(initPackageFile(scanned(rec.first)),
                                                    RecursiveOptions(rec.dev))]
    /\ UNCHANGED <<coreVars, binVars, absorbVars, cliVars, raceVars, fetchVars, waitVars, scanVars,
                   matchVars, walk>>

\* the scan reaches the package.json of a directory below
InstallSecond ==
    /\ rec # <<>>
    /\ rec.phase = "first"
    /\ rec.first.err = ""
    /\ rec' = [rec EXCEPT !.phase = "second",
                          !.second = installPackages(nextProject(rec.first, rec.next),
                                                     RecursiveOptions(rec.dev))]
    /\ UNCHANGED <<coreVars, binVars, absorbVars, cliVars, raceVars, fetchVars, waitVars, scanVars,
                   matchVars, walk>>

NextRecursive == InstallFirst \/ InstallSecond

SpecRecursive == InitRecursive /\ [][NextRecursive]_vars

\* ------------------------------------------------------------------------
\* Tokens: parseDep(dep) on the token as typed
\* ------------------------------------------------------------------------

\* well-formed package names, simple and scoped
TokenNames == {Str("a"), Str("b"), Str("ts"), Str("@o/a"), Str("@o/b"), Str("@types/a")}

\* ranges as typed after the @ of a token, the empty one among them
TokenRanges ==
    {<<>>, Str("*"), Str("latest"), Str("1.0.0"), Str("^") \o Str("1.0.0"),
     Str("~") \o Str("1.1.0"), Str(">=") \o Str("1.0.0") \o Str(" <") \o Str("1.1.0")}

\* the token of a name and a range: name@range
formatDep(name, range) == name \o Str("@") \o range

\* null
Null == <<"null">>

\* what parseDep returns, or the error it throws
Parsed(name, version, error) == [name |-> name, version |-> version, error |-> error]

\* parts[i] || null
orNull(part) == IF part = <<>> THEN Null ELSE part

\* parseDep(dep), with the token split at every @
parseDepAt(dep, parts) ==
    IF Len(dep) = 0 THEN Parsed(Null, Null, "Invalid dependency format (empty string)")
    ELSE IF Len(parts) = 1 THEN Parsed(parts[1], Null, "")
    ELSE IF Len(parts) = 2
    THEN (IF Len(parts[1]) = 0 THEN Parsed(Str("@") \o parts[2], Null, "")
          ELSE Parsed(parts[1], orNull(parts[2]), ""))
    ELSE IF Len(parts) = 3
    THEN (IF Len(parts[1]) > 0 THEN Parsed(Null, Null, "Invalid dependency format")
          ELSE Parsed(Str("@") \o parts[2], orNull(parts[3]), ""))
    ELSE Parsed(Null, Null, "Invalid dependency format")

\* parseDep(dep) on the characters of the token
parseDepOf(dep) == parseDepAt(dep, split(dep, Str("@")))

InitParse ==
    /\ CoreIdle
    /\ AbsorbIdle
    /\ BinIdle
    /\ RecursiveIdle
    /\ CliIdle
    /\ RaceIdle
    /\ FetchIdle
    /\ WaitIdle
    /\ ScanIdle
    /\ query \in [name : TokenNames, range : TokenRanges, bare : BOOLEAN]
    /\ answer = <<>>

\* parseDep of the token name@range, or of the bare name
Parse ==
    /\ answer = <<>>
    /\ answer' = [parsed |-> parseDepOf(IF query.bare THEN query.name
                                        ELSE formatDep(query.name, query.range))]
    /\ UNCHANGED <<coreVars, binVars, absorbVars, recursiveVars, cliVars, raceVars, fetchVars, waitVars,
                   scanVars, query>>

NextParse == Parse

SpecParse == InitParse /\ [][NextParse]_vars

\* ------------------------------------------------------------------------
\* Absorb alone: collectPackage on a scratch directory, as core.ts has it
\* and as the draft part_002 has it, with what each store entry holds
\* ------------------------------------------------------------------------

AbsorbKeys == Published

\* a directory <storeDir>/<name>@<version>: where its files come from, the
\* packages of its node_modules, and the directories moved into it
NoDir == [own |-> "none", nm |-> <<>>, extra |-> {}]

StoreEntry(own, nm, extra) == [own |-> own, nm |-> nm, extra |-> extra]

StoreWith(entries) ==
    [key \in AbsorbKeys |->
        IF \E e \in entries : e[1] = key
        THEN (CHOOSE e \in entries : e[1] = key)[2] ELSE NoDir]

\* the stores absorb starts on: empty, a@1.0.0, a@1.0.0 with c@1.0.0, and
\* a@1.0.0 into which an earlier `mv` has put a directory `a`
AbsorbStores ==
    { StoreWith({}),
      StoreWith({<<Key("a", V100), StoreEntry("store", <<>>, {})>>}),
      StoreWith({<<Key("a", V100), StoreEntry("store", <<>>, {})>>,
                 <<Key("c", V100), StoreEntry("store", <<>>, {})>>}),
      StoreWith({<<Key("a", V100), StoreEntry("store", <<>>, {"a"})>>}) }

\* the node_modules trees the bootstrap installer leaves in the scratch
\* directory
AbsorbTrees ==
    { <<Pkg("a", V100, NoNM), Pkg("b", V100, NoNM)>>,
      <<Pkg("b", V100, DirNM(<<Pkg("a", V110, NoNM)>>)), Pkg("a", V100, NoNM)>>,
      <<Pkg("a", V100, DirNM(<<Pkg("b", V100, NoNM)>>)), Pkg("c", V100, NoNM)>>,
      <<Pkg("a", V100, DirNM(<<Pkg("c", V100, NoNM)>>)),
        Pkg("b", V100, DirNM(<<Pkg("a", V110, NoNM)>>)), Pkg("c", V100, NoNM)>> }

RECURSIVE AllEntries(_)
\* the keys of the packages of a node_modules directory, at any depth
AllEntries(entries) ==
    UNION {{Key(entries[i].name, entries[i].version)} \cup AllEntries(entries[i].sub.e) :
           i \in DOMAIN entries}

\* what absorb found when the store entry of a scratch package existed
Met(key, before, entry, deleted) ==
    [key |-> key, before |-> before, nested |-> AllEntries(entry.sub.e),
     deleted |-> deleted]

RECURSIVE collectPackageSync(_, _)
\* core.ts collectPackage on a real directory that has a name and a
\* version and is not a linked dependency
collectPackageSync(A, entry) ==
    LET key == Key(entry.name, entry.version)
        A1 == [A EXCEPT !.index = @ \cup {key}]
        A2 == IF entry.sub.k = "dir"
              THEN Fold(LAMBDA B, e : collectPackageSync(B, e), A1, entry.sub.e)
              ELSE A1
    IN IF A2.store[key] # NoDir
       THEN [A2 EXCEPT !.met = @ \cup {Met(key, A2.store[key], entry, TRUE)}]
       ELSE [A2 EXCEPT !.store[key] = StoreEntry("scratch", <<>>, {})]

RECURSIVE collectPackageDraft(_, _)
\* part_002 collectPackage: `mv packageDir storePackageDir` first, then
\* fs.access(<packageDir>/node_modules)
collectPackageDraft(A, entry) ==
    LET key == Key(entry.name, entry.version)
        dest == A.store[key]
        A1 == [A EXCEPT !.index = @ \cup {key}]
    IN IF dest = NoDir
       \* the directory is renamed, its node_modules with it
       THEN [A1 EXCEPT !.store[key] = StoreEntry("scratch", entry.sub.e, {})]
       ELSE IF entry.dir \notin dest.extra
       \* mv puts the directory inside the existing one
       THEN [A1 EXCEPT !.store[key].extra = @ \cup {entry.dir},
                       !.met = @ \cup {Met(key, dest, entry, FALSE)}]
       \* `Directory not empty` is taken for success: the directory stays
       ELSE Fold(LAMBDA B, e : collectPackageDraft(B, e),
                 [A1 EXCEPT !.left = @ \cup {entry.dir},
                            !.met = @ \cup {Met(key, dest, entry, FALSE)}],
                 IF entry.sub.k = "dir" THEN entry.sub.e ELSE <<>>)

InitAbsorb ==
    /\ CoreIdle
    /\ CliIdle /\ RaceIdle /\ FetchIdle /\ WaitIdle /\ ScanIdle /\ MatchIdle /\ BinIdle
    /\ RecursiveIdle
    /\ \E draft \in {"core.ts", "part_002"}, disk \in AbsorbStores, nm \in AbsorbTrees :
          absorb = [draft |-> draft, store |-> disk, pre |-> disk, tree |-> nm,
                    scratch |-> nm, left |-> {}, index |-> {}, met |-> {}]

RemoveAt(seq, i) == SubSeq(seq, 1, i - 1) \o SubSeq(seq, i + 1, Len(seq))

\* the loop of core.ts collectNodeModules comes to its next directory
AbsorbPackage ==
    /\ absorb # <<>> /\ absorb.draft = "core.ts"
    /\ absorb.scratch # <<>>
    /\ absorb' = collectPackageSync([absorb EXCEPT !.scratch = Tail(@)],
                                    Head(absorb.scratch))
    /\ UNCHANGED <<coreVars, binVars, recursiveVars, cliVars, raceVars, fetchVars,
                   waitVars, scanVars, matchVars>>

\* in the draft readPackageFile calls back for one of the directories, in
\* any order
AbsorbPackageDraft ==
    /\ absorb # <<>> /\ absorb.draft = "part_002"
    /\ \E i \in DOMAIN absorb.scratch :
          absorb' = collectPackageDraft([absorb EXCEPT !.scratch = RemoveAt(@, i)],
                                        absorb.scratch[i])
    /\ UNCHANGED <<coreVars, binVars, recursiveVars, cliVars, raceVars, fetchVars,
                   waitVars, scanVars, matchVars>>

NextAbsorb == AbsorbPackage \/ AbsorbPackageDraft

SpecAbsorb == InitAbsorb /\ [][NextAbsorb]_vars

\* ------------------------------------------------------------------------
\* Properties
\* ------------------------------------------------------------------------

HasRun == last.mode # "none"

\* the last run finished without an exception
Ok == HasRun /\ last.S.err = ""

\* the dependencies the last run had to link at the top level: those of
\* the manifest it left, devDependencies in dev mode only
Declared ==
    (IF last.options.dev THEN manifest.devDependencies.obj ELSE <<>>)
    \o manifest.dependencies.obj

\* the link: / file: values of the manifest and of the command line
LinkSpecs ==
    {kv[2] : kv \in {manifest.dependencies.obj[i] : i \in DOMAIN manifest.dependencies.obj}
                    \cup {manifest.devDependencies.obj[i] :
                             i \in DOMAIN manifest.devDependencies.obj}}
    \cup {t.range : t \in {last.options.installDeps[i] :
                              i \in DOMAIN last.options.installDeps}
                          \cup {last.options.installDevDeps[i] :
                                   i \in DOMAIN last.options.installDevDeps}}

TargetOf(nm, name) == {l.to : l \in {l \in links : l.nm = nm /\ l.name = name}}

\* C1: after a successful install every symlink the run created in a
\* node_modules directory (top-level, nested in a store entry, peer) points
\* at an existing store directory <name>@<version> of the name it links, or
\* at the path of a LinkSpec.
C1_LinkClosure ==
    Ok => \A l \in last.S.created :
             \/ /\ l.to[1] = "store"
                /\ l.to[2] = l.name
                /\ Key(l.to[2], l.to[3]) \in store
                /\ Key(l.to[2], l.to[3]) \in scanStorePackages(store)
             \/ \E r \in LinkSpecs : isLinkDep(r) /\ l.to = <<"path", r.path>>

\* a successful run that bootstrapped and created a top-level link, a
\* link nested in a store entry, a peer link and a link to a LinkSpec path
C1_Witness ==
    /\ Ok
    /\ last.S.npmInstalls # <<>>
    /\ \E l \in last.S.created : l.nm = Proj /\ l.to[1] = "store"
    /\ \E l \in last.S.created : l.nm = Proj /\ l.to[1] = "path"
    /\ \E l \in last.S.created : l.nm[1] = "store"
    /\ \E p \in last.S.peerCreated : p.link \in last.S.created

\* C2: after a successful install into an empty node_modules, every
\* declared dependency that is not a LinkSpec is linked to the highest
\* version of the store index, as it is after absorption, that satisfies
\* its range.
C2_LinksHighestOfFinalIndex ==
    (Ok /\ last.pre.links = {} /\ last.pre.real = <<>>) =>
        \A i \in DOMAIN Declared :
            ~isLinkDep(Declared[i][2]) =>
                TargetOf(Proj, Declared[i][1]) =
                    {StoreDir(Declared[i][1],
                              findLatestMatch(Declared[i][2],
                                  getVersions(last.S.storePackageVersions,
                                              Declared[i][1])))}

\* the dependencies the last run examined (those of the manifest it
\* found), and the index it scanned
Examined ==
    (IF last.options.dev THEN last.pre.manifest.devDependencies.obj ELSE <<>>)
    \o last.pre.manifest.dependencies.obj

Scanned == scanStorePackages(last.pre.store)

AllInStore ==
    \A i \in DOMAIN Examined :
        \/ isLinkDep(Examined[i][2])
        \/ findLatestMatch(Examined[i][2], getVersions(Scanned, Examined[i][1]))
               # NoVersion

\* C3: in default mode, when the scanned store index has a version for
\* the range of every dependency the run examines, the run neither invokes
\* the bootstrap installer nor asks the registry.
C3_NoBootstrapWhenCached ==
    (last.mode = "default" /\ AllInStore) =>
        last.S.npmInstalls = <<>> /\ last.S.npmViews = <<>>

\* a successful default run on a manifest with two store dependencies,
\* all of them cached, that linked them
C3_Witness ==
    /\ Ok /\ last.mode = "default" /\ AllInStore
    /\ \E i, j \in DOMAIN Examined : i # j /\ ~isLinkDep(Examined[i][2])
                                          /\ ~isLinkDep(Examined[j][2])
    /\ \E l \in last.S.created : l.nm = Proj

RECURSIVE AllPackages(_)
\* the keys of the package directories of a tree, at any depth
AllPackages(entries) ==
    UNION {{Key(entries[i].name, entries[i].version)}
              \cup AllPackages(entries[i].sub.e) :
           i \in {j \in DOMAIN entries : ~entries[j].sym /\ ~IsHidden(entries[j].dir)}}

C5_WalksFinish == HasRun => last.S.err # "overflow"

\* a successful run that absorbed a node_modules holding a package whose
\* own node_modules links back to it and one whose node_modules links to
\* itself, and that linked a@1.1.0 and b@1.0.0, which depend on each other
C5_Witness ==
    /\ Ok
    /\ \E i \in DOMAIN last.pre.real : last.pre.real[i].sub.k = "up"
    /\ \E i \in DOMAIN last.pre.real :
          \E j \in DOMAIN last.pre.real[i].sub.e : last.pre.real[i].sub.e[j].sub.k = "loop"
    /\ real = <<>>
    /\ {StoreDir("a", V110), StoreDir("b", V100)} \subseteq last.S.linkedDeps
    /\ {StoreDir("a", V110), StoreDir("b", V100)} \subseteq last.S.linkedPeerDeps

\* the last two runs had the same command line and both succeeded
RanTwice ==
    /\ Ok
    /\ last.prev.mode = last.mode
    /\ last.prev.options = last.options
    /\ last.prev.err = ""

\* C6: a second run with the same command line leaves the manifest and
\* the symlinks of every node_modules as the first run left them.
C6_Idempotent ==
    RanTwice => manifest = last.pre.manifest /\ links = last.pre.links

\* C7: a peer link created in a package's node_modules has the target of
\* the symlink of that name in the parent node_modules.
C7_PeerSameAsParent ==
    Ok => \A p \in last.S.peerCreated :
             TargetOf(p.parent, p.link.name) = {p.link.to}

\* the install tokens of the last run, with the section each is saved to
TokensOf(section) ==
    IF section = "dependencies" THEN last.options.installDeps
    ELSE last.options.installDevDeps

SectionOf(section) ==
    IF section = "dependencies" THEN manifest.dependencies.obj
    ELSE manifest.devDependencies.obj

\* C8: an install token without a range whose name has a version v in the
\* store is recorded in the manifest as ^v.
C8_RecordsCaret ==
    Ok => \A section \in {"dependencies", "devDependencies"} :
            \A i \in DOMAIN TokensOf(section) :
                LET t == TokensOf(section)[i]
                    v == maxSatisfying(getVersions(Scanned, t.name), Star)
                IN (~isLinkDep(t.range) /\ t.range = NoRange /\ v # NoVersion) =>
                       /\ t.name \in Keys(SectionOf(section))
                       /\ Get(SectionOf(section), t.name) = Caret(v)

UninstallNames ==
    {parseDep(last.options.uninstallDeps[i]).name :
        i \in DOMAIN last.options.uninstallDeps}

\* C9: uninstall removes node_modules/<name> and the name from both
\* sections of the manifest, links the name no more in that run, and
\* leaves every directory of the store in place.
C9_Uninstall ==
    last.mode = "uninstall" =>
        /\ \A name \in UninstallNames :
              /\ TargetOf(Proj, name) = {}
              /\ \A i \in DOMAIN real : real[i].dir # name
              /\ name \notin Keys(manifest.dependencies.obj)
              /\ name \notin Keys(manifest.devDependencies.obj)
              /\ \A l \in last.S.created : ~(l.nm = Proj /\ l.name = name)
        /\ last.pre.store \subseteq store

\* an uninstall of a name that was linked and declared, on a store that
\* was not empty, in a run that went on to link the other dependencies
C9_Witness ==
    /\ Ok /\ last.mode = "uninstall"
    /\ \E name \in UninstallNames :
          /\ \E l \in last.pre.links : l.nm = Proj /\ l.name = name
          /\ name \in Keys(last.pre.manifest.dependencies.obj)
                      \cup Keys(last.pre.manifest.devDependencies.obj)
    /\ last.pre.store # {}
    /\ last.S.resolved # {}

\* C10: an uninstall that removes a name of the manifest writes both
\* sections with their keys sorted.
C10_UninstallSorts ==
    (last.mode = "uninstall"
        /\ \E name \in UninstallNames :
              name \in Keys(last.pre.manifest.dependencies.obj)
                       \cup Keys(last.pre.manifest.devDependencies.obj)) =>
        /\ IsSorted(manifest.dependencies.obj)
        /\ IsSorted(manifest.devDependencies.obj)

\* C11: a run creates no symlink and no node_modules directory inside the
\* target of a LinkSpec: the target's dependencies and peers are not
\* followed.
C11_LinkTargetUntouched ==
    HasRun =>
        /\ \A l \in last.S.created : l.nm[1] # "path"
        /\ \A d \in nmDirs : d[1] # "path"

\* C12: the symlink made for a LinkSpec has the absolute path of the
\* LinkSpec's directory as its target, so that it leads there from the
\* node_modules directory that holds it.
C12_LinkIsAbsolute ==
    HasRun => \A l \in last.S.created :
                 l.to[1] = "path" => /\ l.to[2] = Absolute(l.to[2])
                                     /\ Readlink(l.to) = Canon(l.to)

\* the command line has called main() in install mode
Installing == cli.exit = "main" /\ cli.mode = "install"

\* C13: every argument of an install command line that starts with link:
\* or file: is handed to main() as typed, in installDeps or installDevDeps,
\* so that the core reads as its path everything typed after the prefix.
C13_LinkSpecQueuedAsTyped ==
    Installing =>
        \A k \in 2..Len(argv) :
            isLinkDepArg(argv[k]) =>
                \E j \in 1..Len(cli.installDeps \o cli.installDevDeps) :
                    /\ (cli.installDeps \o cli.installDevDeps)[j] = argv[k]
                    /\ parseLinkDepPackageDirArg((cli.installDeps \o cli.installDevDeps)[j])
                          = slice(argv[k], Len(Str("link:")))

\* both installers have stopped
BothStopped == \A p \in Installers : proc[p].pc \in {"done", "failed"}

\* both installers had the package `a` to absorb, and nothing else
BothAbsorbA == proc # <<>> /\ \A p \in Installers : proc[p].work = <<"a">>

\* C14: when both installers had `a` to absorb and the store did not hold
\* it, both finish without error and the store holds the directory of `a`
\* with the manifest of `a` at its top level, whatever the interleaving.
C14_RaceConverges ==
    (BothAbsorbA /\ BothStopped /\ "a" \notin world.had) =>
        /\ \A p \in Installers : proc[p].pc = "done"
        /\ shared["a"].json = "a"

\* C15: at most one operation is started for a key, and a request that
\* comes while an operation of its key is pending waits for that
\* operation.
C15_OneOperationPerKey ==
    /\ \A o1, o2 \in 1..Len(ops) : ops[o1].key = ops[o2].key => o1 = o2
    /\ \A r \in 1..Len(reqs) :
          reqs[r].pending # {} => reqs[r].op \in reqs[r].pending

\* the run is one of class Store, the class of getPackageInfo and
\* packageInfoCache
StoreDraft == ctx # <<>> /\ ctx.draft \in {"part_000", "part_001"}

\* C16: class Store asks the registry at most once for the info of a
\* package, and packageInfoCache holds its promise from then on.
C16_OneInfoRequestPerName ==
    StoreDraft =>
        \A n \in FetchNames :
            /\ ctx.infoRequests[n] <= 1
            /\ ctx.info[n] # "none" <=> ctx.infoRequests[n] = 1

\* two operations of class Store needed the info of `a`
C16_Witness ==
    /\ StoreDraft
    /\ ctx.infoRequests["a"] = 1
    /\ \E o1, o2 \in 1..Len(ops) :
          o1 # o2 /\ ops[o1].key[1] = "a" /\ ops[o2].key[1] = "a"

\* the errors of the sub-operations that failed: with an error, or by
\* throwing
FailedSubs == {<<i>> : i \in {i \in 1..Len(subs) : subs[i] \in {"err", "threw"}}}

\* the errors of a call of the completion callback
ErrorsOf(call) == {call[j] : j \in 1..Len(call)} \ {NoError}

\* C17: the completion callback, called after every sub-operation has
\* ended, is given the errors of all the sub-operations that failed, and
\* null only when none failed.
C17_AllErrorsSurfaced ==
    wg # <<>> =>
        \A c \in 1..Len(wg.calls) :
            (\A i \in 1..Len(subs) : subs[i] # "pending") =>
                ErrorsOf(wg.calls[c]) = FailedSubs

\* what a run that has ended left: every package it absorbed is in its
\* index and in a scan of the store as it is now
AbsorbedSurvive ==
    (scan # <<>> /\ scan.phase = "done") =>
        /\ scan.absorbed \subseteq index
        /\ scan.absorbed \subseteq scanStoreDir(tree)

\* C18: the index of a run only grows, and after the run every absorbed
\* (name, version), scoped or not, is in the index and in a fresh scan of
\* the store.
C18_AbsorbedSurviveScan ==
    /\ []AbsorbedSurvive
    /\ [][scan # <<>> => index \subseteq index']_vars

\* a run has ended that moved a scoped and an unscoped package to the store
C18_Witness ==
    /\ scan # <<>>
    /\ scan.phase = "done"
    /\ \E p, q \in scan.moved : p[1][1] = "@" /\ q[1][1] # "@"

\* C19: every (name, version) of the index of the store is a directory
\* of the store that holds an extracted package, with its manifest.
C19_IndexedIsOnDisk ==
    ctx # <<>> => ctx.onDisk \subseteq ctx.disk

\* the versions of the query that satisfy its range, `latest` read as `*`
Satisfying ==
    {v \in query.exactVersions :
        satisfies(v, IF query.versionRange = Latest THEN Star ELSE query.versionRange)}

\* the greatest of the satisfying versions, or none
Greatest(version) ==
    IF Satisfying = {} THEN version = NoVersion
    ELSE version \in Satisfying /\ \A w \in Satisfying : VersionLeq(w, version)

\* C20: findLatestMatch returns the greatest of the candidate versions
\* that satisfy the range, none when there is none, and reads the range
\* `latest` as `*`.
C20_FindLatestMatchIsMax ==
    (answer # <<>>) => Greatest(answer.core) /\ Greatest(answer.draft)

\* the acceptance the range forms call for, of a filter's result on a version
FilterFollows(r, version, result) ==
    /\ result \in {"true", "false"}
    /\ r.form \in {"tilde3", "tilde2"} /\ result = "true" =>
            version[1] = r.a[1] /\ version[2] = r.a[2]
    /\ r.form \in {"caret3", "caret1"} /\ result = "true" => version[1] = r.a[1]
    /\ r.form = "star" => result = "true"
    /\ r.form \in {"majorStar", "major"} => (result = "true" <=> version[1] = r.a[1])
    /\ r.form = "between" =>
            (result = "true" <=> VersionLeq(r.a, version) /\ VersionLess(version, r.b))

\* C21: the filter of a version range follows semver range semantics:
\* ~M.m.p and ~M.m accept only versions of the same major and minor, ^M.m.p
\* and ^M only versions of the same major, * accepts every version, M.* and
\* M accept exactly the versions of major M, and >=a <b exactly the
\* versions from a up to but not including b.
C21_FilterFollowsSemver ==
    answer # <<>> /\ "handWritten" \in DOMAIN answer =>
        /\ FilterFollows(query.versionRange, query.version, answer.semver)
        /\ FilterFollows(query.versionRange, query.version, answer.handWritten)

\* the same, of the filter built on semver alone
SemverFilterFollows ==
    answer # <<>> /\ "semver" \in DOMAIN answer =>
        FilterFollows(query.versionRange, query.version, answer.semver)

\* C22: after shim handling, every file that is the target of a
\* node_modules/.bin shim begins with an interpreter directive (first byte
\* #) and has the permission bits 0o755, whatever its content and its
\* permissions were before.
C22_ShimTargetsExecutable ==
    files # <<>> =>
        \A entry \in binDir : files[entry.src].first = "#" /\ files[entry.src].mode = 493

\* a file that could not be executed is given the directive and the bits
UnexecutableMadeExecutable ==
    [][\A name \in BinNames, filename \in BinFiles :
            LinkBinFile(name, filename) /\ ~accessSync(files[filename].mode)
                /\ filename \notin setBinPermissionCache
            => files'[filename] = [first |-> "#", mode |-> 493]]_vars

\* the types package of a name: @types/<name>, @types/<org>__<name>
typesText(n) ==
    Str("@types/") \o (IF n.org = <<>> THEN n.name ELSE n.org \o Str("__") \o n.name)

\* the loop is at the argument <name><suffix> of an install command line
AtShortcut(n, suffix) ==
    /\ cli.exit = ""
    /\ cli.mode = "install"
    /\ cli.i <= Len(argv)
    /\ argv[cli.i] = nameText(n) \o suffix

\* the step queues `deps` for dependencies and `devDeps` for devDependencies
Queues(deps, devDeps) ==
    /\ cli'.installDeps = cli.installDeps \o deps
    /\ cli'.installDevDeps = cli.installDevDeps \o devDeps

\* C23: on the install command line <name>:dts queues <name> for the save
\* target selected at that point and @types/<name> for devDependencies,
\* and <name>:ts queues <name> and @types/<name> for the selected save
\* target; the types package of a scoped name @org/name is
\* @types/org__name.
C23_TypesShortcut ==
    [][\A n \in ShortcutNames :
        /\ AtShortcut(n, Str(":dts")) /\ cli.installTarget = "deps"
                => Queues(<<nameText(n)>>, <<typesText(n)>>)
        /\ AtShortcut(n, Str(":dts")) /\ cli.installTarget = "devDeps"
                => Queues(<<>>, <<nameText(n), typesText(n)>>)
        /\ AtShortcut(n, Str(":ts")) /\ cli.installTarget = "deps"
                => Queues(<<nameText(n), typesText(n)>>, <<>>)
        /\ AtShortcut(n, Str(":ts")) /\ cli.installTarget = "devDeps"
                => Queues(<<>>, <<nameText(n), typesText(n)>>)]_vars

\* `i @o/a:dts` has queued @o/a for dependencies and @types/o__a for
\* devDependencies
C23_Witness ==
    /\ Installing
    /\ argv = <<Str("i"), Str("@o/a") \o Str(":dts")>>
    /\ cli.installDeps = <<Str("@o/a")>>
    /\ cli.installDevDeps = <<Str("@types/") \o <<"o">> \o Str("__") \o Str("a")>>

\* the directories one step away from those of a set, by an entry that is
\* neither hidden nor node_modules
Below(disk, dirs) ==
    {disk[d[1]][d[2]].dir :
        d \in {e \in dirs \X {Str("x"), Str("y")} : isDirectory(disk[e[1]][e[2]])}}

RECURSIVE ReachableFrom(_, _, _)
ReachableFrom(disk, dirs, k) ==
    IF k = 0 THEN dirs ELSE ReachableFrom(disk, dirs \cup Below(disk, dirs), k - 1)

\* the directories reachable from the start directory
Reachable(disk) == ReachableFrom(disk, {Cwd}, Cardinality(WalkDirs))

\* how often the install procedure ran for a directory
InstallsOf(d) == Cardinality({i \in 1..Len(walk.installs) : walk.installs[i] = d})

\* C24: in recursive mode the install procedure runs exactly once for each
\* directory, by its canonical path, that contains a package.json and is
\* reachable from the start directory without passing through a
\* node_modules directory or a hidden entry, and for no other directory,
\* also when symlinked directories form cycles.
C24_OncePerProject ==
    walk # <<>> /\ walk.phase = "done" =>
        \A d \in WalkDirs :
            InstallsOf(d) =
                IF d \in Reachable(walk.tree) /\ walk.tree[d][Str("package.json")] = File
                THEN 1 ELSE 0

\* a finished scan of directories in a cycle, with a project in it, and
\* of a project below node_modules
C24_Witness ==
    /\ walk # <<>>
    /\ walk.phase = "done"
    /\ walk.tree[1][Str("x")] = Dir(2)
    /\ walk.tree[2][Str("x")] = Dir(1)
    /\ walk.tree[1][Str("y")] = Dir(2)
    /\ walk.tree[1][Str("node_modules")] = Dir(3)
    /\ walk.tree[3][Str("package.json")] = File
    /\ walk.installs = <<1, 2>>

\* the dependencies the second project declares, devDependencies in dev
\* mode only
SecondDeclared ==
    (IF rec.dev THEN rec.next.devDependencies.obj ELSE <<>>) \o rec.next.dependencies.obj

\* the versions of a name absorbed while the first project was installed
\* that satisfy a range
AbsorbedFor(name, range) ==
    {key[2] : key \in {k \in rec.first.moved : k[1] = name /\ satisfies(k[2], range)}}

\* the names the bootstrap installer was asked for in the second project
SecondAsked ==
    UNION {Keys(rec.second.npmInstalls[i]) : i \in DOMAIN rec.second.npmInstalls}

NeverFetchedTwice ==
    rec # <<>> /\ rec.phase = "second" /\ rec.second.err = "" =>
        rec.second.removed \cap rec.first.moved = {}

\* the last run was an install: `slnpm` or `slnpm install <tokens>`
Installed == HasRun /\ last.mode \in {"default", "install"}

\* C26: if node_modules/<name> already exists when install links <name>,
\* the existing entry is left as it was, with the same target even if it
\* points at a different version than the one resolved now, and no error
\* is raised for it.
C26_ExistingLinkLeft ==
    Installed =>
        /\ \A l \in last.pre.links : l \in links
        /\ last.S.err # "EEXIST"

\* node_modules/a was a link to a@1.0.0 before the run, the run found
\* a@1.1.0 for the range ^1.0.0 of the manifest, and the link is as before
C26_Witness ==
    /\ Installed
    /\ Ok
    /\ Link(Proj, "a", StoreDir("a", V100)) \in last.pre.links
    /\ Link(Proj, "a", StoreDir("a", V100)) \in links
    /\ Key("a", V110) \in last.S.storePackageVersions
    /\ \E i \in DOMAIN Declared : Declared[i] = <<"a", Caret(V100)>>

\* the last run was `slnpm`, without tokens, on a project with a manifest
DefaultOnManifest == HasRun /\ last.mode = "default" /\ last.pre.manifestExists

\* C27: in default mode, with no install and no uninstall tokens on the
\* command line, an existing project manifest is never written: its
\* content after the run is its content before, whether the install
\* succeeds or fails.
C27_DefaultLeavesManifest ==
    DefaultOnManifest =>
        /\ manifest = last.pre.manifest
        /\ manifestExists
        /\ last.S.manifestWrites = 0

\* a default run that absorbed new packages, on a manifest with
\* dependencies
C27_Witness ==
    /\ DefaultOnManifest
    /\ last.S.absorbed
    /\ last.pre.manifest.dependencies.has

\* a default run that failed, on a manifest with dependencies
DefaultFailed == DefaultOnManifest /\ last.S.err # ""

\* the non-hidden entries of the project's node_modules: symlinks and real
\* directories
ProjectEntries ==
    {l.name : l \in {k \in links : k.nm = Proj}}
        \cup {real[i].dir : i \in {j \in DOMAIN real : ~IsHidden(real[j].dir)}}

\* C28: install removes the packages not specified in package.json: after
\* a successful default-mode install every non-hidden entry of the
\* project's node_modules is the name of a package declared in the
\* manifest's dependencies or devDependencies.
C28_NoExtraPackages ==
    HasRun /\ last.mode = "default" /\ last.S.err = "" =>
        ProjectEntries \subseteq
            Keys(manifest.dependencies.obj) \cup Keys(manifest.devDependencies.obj)

\* what a set of symlinks has inside the store entry of a key
InsideStoreEntry(all, key) == {l \in all : l.nm = StoreDir(key[1], key[2])}

\* C29: a store entry is never mutated after it is created: once
\* <storeDir>/<name>@<version> exists, no later step of an install (link
\* passes, peer pass, shim handling, uninstall) creates, changes or removes
\* anything inside that directory.
C29_StoreEntryImmutable ==
    HasRun =>
        \A key \in last.pre.store :
            InsideStoreEntry(links, key) = InsideStoreEntry(last.pre.links, key)

\* C30: parseDep inverts the formatting of a token: for every well-formed
\* package name, simple or scoped, and every range, parsing name@range
\* returns exactly (name, range), and parsing the bare name returns the
\* name with no range; so too for the latest tag and for an empty range.
C30_ParseInvertsFormat ==
    answer # <<>> /\ "parsed" \in DOMAIN answer =>
        answer.parsed = Parsed(query.name, IF query.bare THEN Null ELSE query.range, "")

\* the same, for the ranges that are not empty
ParseInvertsFormatNonEmpty ==
    answer # <<>> /\ "parsed" \in DOMAIN answer /\ (query.bare \/ query.range # <<>>) =>
        answer.parsed = Parsed(query.name, IF query.bare THEN Null ELSE query.range, "")

\* the index of the last run when its link pass resolved
LinkIndex(name) == getVersions(last.S.storePackageVersions, name)

\* the link pass of the last run resolved a dependency, or failed to
LinkPassReached == last.S.resolved # {} \/ last.S.err = "missing package"

\* the dependencies the link pass of the last run may reach: those of the
\* project and those of the package.json of every package it resolved
Needed ==
    {<<Proj, Declared[i][1], Declared[i][2]>> : i \in DOMAIN Declared}
    \cup UNION {{<<StoreDir(r[2], r[4]), kv[1], kv[2]>> :
                    kv \in {PackageJson(r[2], r[4]).dependencies[i] :
                               i \in DOMAIN PackageJson(r[2], r[4]).dependencies}} :
                r \in last.S.resolved}

Unsatisfied ==
    {n \in Needed : /\ ~isLinkDep(n[3])
                    /\ findLatestMatch(n[3], LinkIndex(n[2])) = NoVersion}

\* C31: in an install that ran the bootstrap installer the link pass
\* resolves only after absorb of the scratch tree has finished: every
\* package of the scratch tree is in the store index, every resolution of
\* linkDep gives the highest satisfying version of that index, and a
\* dependency with no satisfying version in it ends the run with
\* `missing package` and is not linked.
C31_AbsorbBeforeLink ==
    (HasRun /\ last.S.npmInstalls # <<>>) =>
        /\ LinkPassReached =>
              /\ last.S.absorbed
              /\ AllPackages(last.S.scratch) \subseteq last.S.storePackageVersions
              /\ last.S.moved \subseteq last.S.storePackageVersions
        /\ \A r \in last.S.resolved :
              /\ r[4] # NoVersion
              /\ r[4] = findLatestMatch(r[3], LinkIndex(r[2]))
        /\ last.S.err = "" => Unsatisfied = {}
        /\ last.S.err = "missing package" =>
              /\ Unsatisfied # {}
              /\ \E n \in Unsatisfied :
                    \A l \in last.S.created : ~(l.nm = n[1] /\ l.name = n[2])

\* a run that bootstrapped, absorbed a package, resolved a dependency to
\* a version it had absorbed, and another that bootstrapped, absorbed and
\* stopped on `missing package`
C31_Witness ==
    /\ HasRun /\ last.S.npmInstalls # <<>> /\ last.S.absorbed
    /\ last.S.moved # {}
    /\ \E r \in last.S.resolved : Key(r[2], r[4]) \in last.S.moved
    /\ last.S.err = "missing package"
    /\ Unsatisfied # {}

AbsorbDone == absorb # <<>> /\ absorb.scratch = <<>>

\* what C32 says of the packages absorb met with their store entry there
ExistingEntryKept(met) ==
    \A m \in met :
        /\ m.deleted
        /\ absorb.store[m.key] = m.before
        /\ \A key \in m.nested : key \in absorb.index /\ absorb.store[key] # NoDir

\* C32: when absorb meets a scratch package whose store entry exists, the
\* scratch copy is deleted, the store entry is as it was, and the packages
\* nested in the scratch copy's node_modules are in the store and in the
\* index when absorb is done.
C32_ExistingEntryKept == AbsorbDone => ExistingEntryKept(absorb.met)

\* the same of collectPackage as core.ts has it
SyncExistingEntryKept ==
    (AbsorbDone /\ absorb.draft = "core.ts") => ExistingEntryKept(absorb.met)

\* core.ts absorb met a package with nested packages whose store entry
\* existed
SyncMetExisting ==
    /\ AbsorbDone /\ absorb.draft = "core.ts"
    /\ \E m \in absorb.met : m.nested # {}

\* the rows of the link tables of the node_modules directories the peer
\* pass of the last run went through
PeerPassRows ==
    {last.S.depPackageDirs[i] :
        i \in {j \in DOMAIN last.S.depPackageDirs :
                  Canon(last.S.depPackageDirs[j].nm) \in last.S.linkedPeerDeps}}

\* the package of the row names one of its peerDependencies in its
\* peerDependenciesMeta
MetaNamesPeer(d) ==
    \E i \in DOMAIN PackageJsonOf(d.dir).peerDependenciesMeta :
        PackageJsonOf(d.dir).peerDependenciesMeta[i]
            \in Keys(PackageJsonOf(d.dir).peerDependencies)

\* C33: after a successful install the peer pass has been applied to the
\* node_modules of every package in the link table of every directory it
\* went through, whatever the package declares in peerDependencies and
\* peerDependenciesMeta.
C33_PeerPassRecurses ==
    Ok => \A d \in PeerPassRows : Canon(d.dir) \in last.S.linkedPeerDeps

\* the same of the packages that name none of their peerDependencies in
\* peerDependenciesMeta
PeerPassRecursesUnlessMeta ==
    Ok => \A d \in PeerPassRows :
             ~MetaNamesPeer(d) => Canon(d.dir) \in last.S.linkedPeerDeps

\* the store has been scanned
StrayScanned == scan # <<>> /\ scan.phase = "done" /\ "draft" \in DOMAIN scan

\* C34: the scan of a store gives an index of the packages that have a
\* directory <name>@<version> there and of nothing else: a directory whose
\* name has no `@`, or an empty name or version part, adds no entry, and
\* an empty store gives an empty index.
C34_MalformedSkipped ==
    StrayScanned => index \subseteq scan.packages

\* the packages of the store are in the index, and an empty store gives
\* an empty index
StoredAreIndexed ==
    StrayScanned => /\ scan.packages \subseteq index
                    /\ tree = {} => index = {}

\* C35: after a successful install that ran the bootstrap installer the
\* scratch directory <projectDir>/node_modules/.tmp does not exist.
C35_ScratchRemoved ==
    (Ok /\ last.S.npmInstalls # <<>>) => ~tmp.exists

\* after a successful absorb the node_modules of the scratch directory
\* holds no package
ScratchEmptied ==
    (Ok /\ last.S.npmInstalls # <<>>) => Packages(tmp.nm) = <<>>

\* the (name, range) pairs the last run examined for which the index it
\* had scanned held no satisfying version
Unresolved ==
    {Examined[i] : i \in {j \in DOMAIN Examined :
        /\ ~isLinkDep(Examined[j][2])
        /\ findLatestMatch(Examined[j][2], getVersions(Scanned, Examined[j][1]))
               = NoVersion}}

\* the pairs of the manifests written for the bootstrap installer
Listed ==
    UNION {{last.S.npmInstalls[i][j] : j \in DOMAIN last.S.npmInstalls[i]} :
              i \in DOMAIN last.S.npmInstalls}

\* the last run was a default one that came to its `if (hasNewDeps)`
CameToBootstrap ==
    last.mode = "default" /\ (last.S.err = "" \/ last.S.npmInstalls # <<>>)

\* C36: in a run without install tokens the manifest written for the
\* bootstrap installer lists the examined (name, range) pairs that no
\* version of the scanned index satisfied and no other, and the installer
\* is invoked, once, exactly when there is such a pair.
C36_BootstrapListsUnresolved ==
    CameToBootstrap =>
        /\ Listed = Unresolved
        /\ last.S.npmInstalls # <<>> <=> Unresolved # {}
        /\ Len(last.S.npmInstalls) <= 1

\* no pair that the scanned index satisfied is listed, every name with
\* an unresolved pair is listed, and the installer is invoked, once,
\* exactly when there is an unresolved pair
ListedAreUnresolved ==
    CameToBootstrap =>
        /\ Listed \subseteq Unresolved
        /\ {kv[1] : kv \in Listed} = {kv[1] : kv \in Unresolved}
        /\ last.S.npmInstalls # <<>> <=> Unresolved # {}
        /\ Len(last.S.npmInstalls) <= 1

\* a default run listed a pair for the bootstrap installer and linked
\* another from the store
ListedSome ==
    /\ CameToBootstrap /\ Listed # {}
    /\ \E i \in DOMAIN Examined :
          ~isLinkDep(Examined[i][2]) /\ Examined[i] \notin Unresolved

\* the section of the manifest the last run started on
PreSectionOf(section) ==
    IF section = "dependencies" THEN last.pre.manifest.dependencies.obj
    ELSE last.pre.manifest.devDependencies.obj

\* the names of the install tokens of a section that the manifest declared
\* there with another range than the one the run registered for the token
Replaced(section) ==
    {n \in {TokensOf(section)[i].name : i \in DOMAIN TokensOf(section)} :
        /\ n \in Keys(PreSectionOf(section))
        /\ n \in Keys(last.S.newInstallDeps)
        /\ Get(PreSectionOf(section), n) # Get(last.S.newInstallDeps, n)}

\* C37: when an install token names a package the manifest declared with
\* another range, the bootstrap installer is given the new range for it,
\* the link pass resolves the new range for it, and the run does not end
\* with a missing package.
C37_TokenRangeReplaces ==
    (HasRun /\ last.mode = "install") =>
        \A section \in {"dependencies", "devDependencies"} :
            \A n \in Replaced(section) :
                /\ \A kv \in Listed : kv[1] = n => kv[2] = Get(last.S.newInstallDeps, n)
                /\ \A r \in last.S.resolved :
                      (r[1] = Proj /\ r[2] = n) => r[3] = Get(last.S.newInstallDeps, n)
                /\ last.S.err # "missing package"

\* the manifest the run leaves declares the new range only
ManifestHasNewRange ==
    (Ok /\ last.mode = "install") =>
        \A section \in {"dependencies", "devDependencies"} :
            \A n \in Replaced(section) :
                Get(SectionOf(section), n) = Get(last.S.newInstallDeps, n)

\* main() has been called for an install command line that ends with -D
\* or --save-dev, after its package arguments
TrailingSaveDev ==
    /\ Installing
    /\ Len(argv) >= 3
    /\ argv[Len(argv)] \in {Str("-D"), Str("--save-dev")}

\* C38: when -D or --save-dev ends an install command line, every package
\* of the command line is queued for devDependencies and none for
\* dependencies.
C38_TrailingSaveDevMovesAll ==
    TrailingSaveDev => cli.installDeps = <<>> /\ cli.installDevDeps # <<>>

\* the same of the command lines without a :dts shortcut
TrailingSaveDevMovesPlain ==
    (TrailingSaveDev /\ \A k \in 2..Len(argv) : ~includes(argv[k], Str(":dts")))
        => cli.installDeps = <<>> /\ cli.installDevDeps # <<>>

\* `i a -D` has been read
TrailingSaveDevPlain ==
    /\ TrailingSaveDev
    /\ argv = <<Str("i"), Str("a"), Str("-D")>>
    /\ cli.installDevDeps = <<Str("a")>>

\* every operation registered on the WaitGroup has reported its result
AllReported == \A i \in 1..Len(subs) : subs[i].state # "pending"

====
